---- MODULE Spec2Model ----
(***************************************************************************)
(* Retail ETL: the staging cleaner (extract/retail_extract.py), the        *)
(* dimension and fact builders and their loads                             *)
(* (transform/retail_transform.py), the retry and the repetition of the    *)
(* transform task (dags/retail_etl_dag.py) and the quality checker         *)
(* (data_quality.py), as state machines over the warehouse tables.         *)
(*                                                                         *)
(* A dataframe is a sequence of rows; a row is a record.  A nullable cell  *)
(* (pandas NaN/NaT/None, SQL NULL) is the empty set, a present value v is  *)
(* the singleton {v}.  A timestamp is <<day, hour>>, a calendar date is    *)
(* the day.  An invoice id is a sequence of characters.                    *)
(***************************************************************************)
EXTENDS Integers, Sequences, FiniteSets, TLC

VARIABLES
    source,       \* the Excel sheet: [columns: header names, rows: raw rows]
    now,          \* pd.Timestamp.now(): a clock that ticks at each reading
    df_clean,     \* dataframe returned by extract_from_excel / _clean_data
    stats,        \* statistics returned with df_clean
    reclean,      \* result of applying _clean_data to df_clean (Null before)
    db,           \* the warehouse: table name -> sequence of persisted rows
    pc,           \* position of the running task
    i,            \* loop offset of the batch loop in progress
    err,          \* the exception that ended the task, "" if none
    df_staging,   \* dataframe handed to the transform functions
    dimension_keys, \* natural key -> surrogate key mappings, per dimension
    out,          \* dataframes returned by the transform functions
    table_name,   \* the table load_dimension is loading
    attempt,      \* try number of the running task instance (Airflow)
    log,          \* the steps the running call has logged, in order
    history,      \* one entry per finished call of run_full_transformation
    report,       \* the report run_all_checks is building
    category_results, \* results of the category run_all_checks is looping over
    monitoring,   \* the call of a DataQualityMonitor check: query result, return
    dag,          \* the task instances of the DAG run and what they pushed
    today,        \* CURRENT_DATE of the warehouse server, a day number
    other,        \* the saved state of the DAG run that is not on the processor
    max_active_runs \* the number of DAG runs the scheduler lets be active

vars == <<source, now, df_clean, stats, reclean, db, pc, i, err,
          df_staging, dimension_keys, out, table_name,
          attempt, log, history, report, category_results,
          monitoring, dag, today, other, max_active_runs>>

(***************************************************************************)
(* Bounds                                                                  *)
(***************************************************************************)
\* longest sheet read by extract_from_excel
MaxRows == 2
\* longest staging dataframe handed to the transform functions
MaxStagingRows == 2

(***************************************************************************)
(* Nullable cells and dataframe primitives (pandas)                        *)
(***************************************************************************)
Null == {}
Some(v) == {v}
IsNull(x) == x = {}
Val(x) == CHOOSE v \in x : TRUE

Range(s) == {s[k] : k \in 1..Len(s)}

RECURSIVE PickFrom(_, _, _)
\* the rows of s at the positions of I from k on, by halves
PickFrom(s, I, k) ==
    IF k > Len(s) THEN <<>>
    ELSE IF k = Len(s) THEN (IF k \in I THEN <<s[k]>> ELSE <<>>)
    ELSE LET mid == (k + Len(s)) \div 2
         IN  PickFrom(SubSeq(s, 1, mid), I, k) \o PickFrom(s, I, mid + 1)

\* the rows of s at the positions I, in their order in s (boolean indexing)
Pick(s, I) == PickFrom(s, I, 1)

\* DataFrame.dropna(subset=...): removes the rows with a null in any column of subset
dropna(df, subset) ==
    Pick(df, {k \in 1..Len(df) : \A c \in subset : ~IsNull(df[k][c])})

\* DataFrame.drop_duplicates(subset=...), keep='first'; two nulls are equal
drop_duplicates(df, subset) ==
    Pick(df, {k \in 1..Len(df) :
                 \A j \in 1..(k - 1) : \E c \in subset : df[j][c] # df[k][c]})

\* Series.astype(str) on an object column: a null becomes the text "nan"
astype_str(x) == IF IsNull(x) THEN <<"n", "a", "n">> ELSE Val(x)

\* str.startswith
startswith(s, c) == Len(s) > 0 /\ s[1] = c

\* elementwise product of two nullable numbers: NaN if either is NaN
Times(a, b) == IF IsNull(a) \/ IsNull(b) THEN Null ELSE Some(Val(a) * Val(b))

\* Series.sum of a boolean column
Count(df, col) == Cardinality({k \in 1..Len(df) : df[k][col]})

(***************************************************************************)
(* RetailExtractor                                                          *)
(***************************************************************************)
DEDUP_KEYS == {"InvoiceNo", "StockCode", "InvoiceDate"}

\* variant: the customer id is not required
required_cols_no_customer == <<"InvoiceNo", "StockCode", "InvoiceDate">>

required_cols == <<"InvoiceNo", "StockCode", "InvoiceDate", "CustomerID">>

\* extract_from_excel: df_raw.rename(columns=column_mapping)
column_mapping(c) ==
    CASE c = "Customer ID" -> "CustomerID"
      [] c = "Invoice" -> "InvoiceNo"
      [] c = "Price" -> "UnitPrice"
      [] OTHER -> c

rename_columns(cols) == {column_mapping(c) : c \in cols}

missing_cols(cols) == SelectSeq(required_cols, LAMBDA c : c \notin cols)

invalid_price(r) ==
    (~IsNull(r.UnitPrice) /\ Val(r.UnitPrice) <= 0) \/ IsNull(r.UnitPrice)

high_qty(r) == ~IsNull(r.Quantity) /\ Val(r.Quantity) > 1000

clean_is_return(r) ==
    startswith(astype_str(r.InvoiceNo), "C")
        \/ (~IsNull(r.Quantity) /\ Val(r.Quantity) < 0)

clean_total_amount(r) == Times(r.Quantity, r.UnitPrice)

\* the three flag columns assigned to df_work (an existing column is overwritten)
with_flags(r) ==
    [price_flag |-> invalid_price(r),
     quantity_flag |-> high_qty(r),
     is_return |-> clean_is_return(r)] @@ r

\* variant: the invoice timestamp is cut to its date when the total is added
with_total_date_only(r, t) ==
    [TotalAmount |-> clean_total_amount(r), processed_at |-> t,
     InvoiceDate |-> IF IsNull(r.InvoiceDate) THEN Null
                     ELSE Some(<<Val(r.InvoiceDate)[1], 0>>)] @@ r

with_total(r, t) ==
    [TotalAmount |-> clean_total_amount(r), processed_at |-> t] @@ r

\* variant: rows with a null customer id are kept
null_dropped_keeps_customer(df) == dropna(df, {"StockCode", "InvoiceDate"})

null_dropped(df) == dropna(df, {"CustomerID", "StockCode", "InvoiceDate"})

\* variant: duplicates are removed before the null rows are
clean_data_dedup_first(df, t) ==
    LET deduped0 == drop_duplicates(df, DEDUP_KEYS)
        kept == null_dropped(deduped0)
        flagged == [k \in 1..Len(kept) |-> with_flags(kept[k])]
    IN  [df |-> [k \in 1..Len(flagged) |-> with_total(flagged[k], t)],
         stats |-> [null_drops |-> Len(deduped0) - Len(kept),
                    invalid_price_count |-> Count(flagged, "price_flag"),
                    high_quantity_count |-> Count(flagged, "quantity_flag"),
                    return_count |-> Count(flagged, "is_return"),
                    duplicates_removed |-> Len(df) - Len(deduped0)]]

\* variant: rows with an invalid price are filtered out instead of flagged
clean_data_drop_flagged(df, t) ==
    LET kept == null_dropped(df)
        flagged0 == [k \in 1..Len(kept) |-> with_flags(kept[k])]
        flagged == Pick(flagged0, {k \in 1..Len(flagged0) : ~flagged0[k].price_flag})
        deduped == drop_duplicates(flagged, DEDUP_KEYS)
    IN  [df |-> [k \in 1..Len(deduped) |-> with_total(deduped[k], t)],
         stats |-> [null_drops |-> Len(df) - Len(kept),
                    invalid_price_count |-> Count(flagged0, "price_flag"),
                    high_quantity_count |-> Count(flagged0, "quantity_flag"),
                    return_count |-> Count(flagged0, "is_return"),
                    duplicates_removed |-> Len(flagged) - Len(deduped)]]

\* _clean_data after the required-column check: the dataframe and its statistics
clean_data(df, t) ==
    LET kept == null_dropped(df)
        flagged == [k \in 1..Len(kept) |-> with_flags(kept[k])]
        deduped == drop_duplicates(flagged, DEDUP_KEYS)
    IN  [df |-> [k \in 1..Len(deduped) |-> with_total(deduped[k], t)],
         stats |-> [null_drops |-> Len(df) - Len(kept),
                    invalid_price_count |-> Count(flagged, "price_flag"),
                    high_quantity_count |-> Count(flagged, "quantity_flag"),
                    return_count |-> Count(flagged, "is_return"),
                    duplicates_removed |-> Len(flagged) - Len(deduped)]]

\* the exception _clean_data raises on these columns, "" if it returns
clean_error(cols) ==
    IF missing_cols(cols) # <<>> THEN "ValueError"
    ELSE IF ~({"UnitPrice", "Quantity"} \subseteq cols) THEN "KeyError"
    ELSE ""


\* round(num / den, 0) as Python rounds: to nearest, a tie to the even neighbour
round_half_even(num, den) ==
    LET q == num \div den
        r == num % den
    IN  IF 2 * r < den THEN q
        ELSE IF 2 * r > den THEN q + 1
        ELSE IF q % 2 = 0 THEN q ELSE q + 1

\* extract_from_excel: stats.update(...); drop_rate is kept in hundredths of a percent
final_stats(st, initial_count, final_count) ==
    [initial_rows |-> initial_count,
     final_rows |-> final_count,
     rows_dropped |-> initial_count - final_count,
     drop_rate |-> round_half_even((initial_count - final_count) * 10000,
                                   initial_count)] @@ st

\* load_to_staging: rename to the database columns and keep only db_columns;
\* src is a history field (the sheet row the staging row was written from)
db_columns(r) ==
    [invoice |-> r.InvoiceNo,
     stock_code |-> r.StockCode,
     description |-> r.Description,
     quantity |-> r.Quantity,
     invoice_date |-> r.InvoiceDate,
     price |-> r.UnitPrice,
     customer_id |-> r.CustomerID,
     country |-> r.Country,
     src |-> r.idx]

\* the columns df_db[db_columns] selects, by their dataframe names
staging_cols ==
    {"InvoiceNo", "StockCode", "Description", "Quantity", "InvoiceDate",
     "UnitPrice", "CustomerID", "Country"}

\* rows per to_sql call (5000 in the source, scaled to the model's sheets)
batch_size == 1

Min(a, b) == IF a < b THEN a ELSE b

\* df.iloc[k:batch_end] for the batch starting at offset k
batch(df, k) == SubSeq(df, k + 1, Min(k + batch_size, Len(df)))

NoErr == [type |-> "", detail |-> <<>>]
Raise(t) == [type |-> t, detail |-> <<>>]

(***************************************************************************)
(* The extraction task (dags/retail_etl_dag.py, extract_retail_data)        *)
(***************************************************************************)
xform_vars == <<df_staging, dimension_keys, out, table_name>>

\* the state of the task runs and of their logs
run_vars == <<attempt, log, history>>

\* the state of run_all_checks
dq_vars == <<report, category_results>>

\* the state of the DAG run around the running task, and of the monitor
dag_vars == <<monitoring, dag, today, other, max_active_runs>>

\* pd.read_excel raises (file missing or unreadable)
ReadExcelFails ==
    /\ pc = "extract"
    /\ pc' = "failed"
    /\ err' = Raise("ReadError")
    /\ UNCHANGED <<source, now, df_clean, stats, reclean, db, i, xform_vars, run_vars, dq_vars, dag_vars>>

\* extract_from_excel: read, rename, _clean_data, final statistics
ExtractFromExcel ==
    /\ pc = "extract"
    /\ LET cols == rename_columns(source.columns)
           res == clean_data(source.rows, now)
       IN  IF clean_error(cols) = "ValueError"
           THEN /\ err' = [type |-> "ValueError", detail |-> missing_cols(cols)]
                /\ pc' = "failed"
                /\ UNCHANGED <<now, df_clean, stats>>
           ELSE IF clean_error(cols) # ""
           THEN /\ err' = Raise(clean_error(cols))
                /\ pc' = "failed"
                /\ UNCHANGED <<now, df_clean, stats>>
           ELSE IF Len(source.rows) = 0
           THEN /\ err' = Raise("ZeroDivisionError")
                /\ pc' = "failed"
                /\ now' = now + 1
                /\ UNCHANGED <<df_clean, stats>>
           ELSE /\ df_clean' = res.df
                /\ stats' = final_stats(res.stats, Len(source.rows), Len(res.df))
                /\ now' = now + 1
                /\ pc' = "load_to_staging"
                /\ UNCHANGED err
    /\ UNCHANGED <<source, reclean, db, i, xform_vars, run_vars, dq_vars, dag_vars>>

\* load_to_staging: df_db[db_columns] raises on a column the sheet lacks
StagingKeyError ==
    /\ pc = "load_to_staging"
    /\ ~(staging_cols \subseteq rename_columns(source.columns))
    /\ pc' = "failed"
    /\ err' = Raise("KeyError")
    /\ UNCHANGED <<source, now, df_clean, stats, reclean, db, i, xform_vars, run_vars, dq_vars, dag_vars>>

\* load_to_staging with total_rows = 0: no truncate, no batch, returns
StagingEmpty ==
    /\ pc = "load_to_staging"
    /\ staging_cols \subseteq rename_columns(source.columns)
    /\ Len(df_clean) = 0
    /\ pc' = "extracted"
    /\ UNCHANGED <<source, now, df_clean, stats, reclean, db, i, err, xform_vars, run_vars, dq_vars, dag_vars>>

\* TRUNCATE TABLE raw_retail_data CASCADE
StagingTruncate ==
    /\ pc = "load_to_staging"
    /\ staging_cols \subseteq rename_columns(source.columns)
    /\ Len(df_clean) > 0
    /\ db' = [db EXCEPT !.raw_retail_data = <<>>]
    /\ i' = 0
    /\ pc' = "staging_batch"
    /\ UNCHANGED <<source, now, df_clean, stats, reclean, err, xform_vars, run_vars, dq_vars, dag_vars>>

StagingTruncateFails ==
    /\ pc = "load_to_staging"
    /\ staging_cols \subseteq rename_columns(source.columns)
    /\ Len(df_clean) > 0
    /\ pc' = "failed"
    /\ err' = Raise("DatabaseError")
    /\ UNCHANGED <<source, now, df_clean, stats, reclean, db, i, xform_vars, run_vars, dq_vars, dag_vars>>

\* one batch_df.to_sql(..., if_exists="append"); the loop ends after the last batch
StagingBatch ==
    /\ pc = "staging_batch"
    /\ LET rows == [k \in 1..Len(df_clean) |-> db_columns(df_clean[k])]
       IN  db' = [db EXCEPT !.raw_retail_data = @ \o batch(rows, i)]
    /\ i' = i + batch_size
    /\ pc' = IF i + batch_size < Len(df_clean) THEN "staging_batch" ELSE "extracted"
    /\ UNCHANGED <<source, now, df_clean, stats, reclean, err, xform_vars, run_vars, dq_vars, dag_vars>>

StagingBatchFails ==
    /\ pc = "staging_batch"
    /\ pc' = "failed"
    /\ err' = Raise("DatabaseError")
    /\ UNCHANGED <<source, now, df_clean, stats, reclean, db, i, xform_vars, run_vars, dq_vars, dag_vars>>

\* the cleaner applied to the dataframe it returned
CleanAgain ==
    /\ pc = "extracted"
    /\ IsNull(reclean)
    /\ reclean' = Some(clean_data(df_clean, now))
    /\ now' = now + 1
    /\ UNCHANGED <<source, df_clean, stats, db, pc, i, err, xform_vars, run_vars, dq_vars, dag_vars>>


(***************************************************************************)
(* Inputs of the extraction task                                           *)
(***************************************************************************)
FullHeader ==
    {"Invoice", "StockCode", "Description", "Quantity", "InvoiceDate",
     "Price", "Customer ID", "Country"}

\* sheets that lack a column the task reads
ShortHeaders ==
    {FullHeader \ {"Customer ID"},
     FullHeader \ {"Invoice", "StockCode"},
     FullHeader \ {"InvoiceDate"},
     FullHeader \ {"Price"},
     FullHeader \ {"Description"}}

PlainRow ==
    [InvoiceNo |-> Some(<<"5">>), StockCode |-> Some("A"),
     Description |-> Some("CUP"), Quantity |-> Some(2),
     InvoiceDate |-> Some(<<1, 9>>), UnitPrice |-> Some(3),
     CustomerID |-> Some(17850), Country |-> Some("UK")]

\* rows that vary the key columns and their nulls
KeyRows ==
    {[PlainRow EXCEPT !.InvoiceNo = inv, !.StockCode = sc,
                      !.InvoiceDate = dt, !.CustomerID = cu] :
        inv \in {Some(<<"5">>), Some(<<"C", "5">>)},
        sc \in {Some("A"), Null},
        dt \in {Some(<<1, 9>>), Some(<<1, 10>>), Null},
        cu \in {Some(17850), Null}}

\* rows that vary the measures and the invoice id
MeasureRows ==
    {[PlainRow EXCEPT !.InvoiceNo = inv, !.Quantity = q, !.UnitPrice = p] :
        inv \in {Some(<<"5">>), Some(<<"C", "5">>), Null},
        q \in {Some(-1), Some(1000), Some(1001)},
        p \in {Some(0), Some(3), Null}}

\* the dataframe read from a sheet whose rows are f[1], f[2], ...; idx is the
\* index pandas gives the row
Sheet(f) == [k \in 1..Len(f) |-> [idx |-> k] @@ f[k]]

\* a full sheet of at most MaxRows rows, or a one-row sheet lacking columns
IsExtractSource(src) ==
    \/ \E n \in 0..MaxRows : \E f \in [1..n -> KeyRows \cup MeasureRows] :
          src = [columns |-> FullHeader, rows |-> Sheet(f)]
    \/ \E h \in ShortHeaders :
          src = [columns |-> h, rows |-> Sheet(<<PlainRow>>)]

\* a staging row left by an earlier run (src 0: not a row of this sheet)
OldStagingRow ==
    [invoice |-> Some(<<"4">>), stock_code |-> Some("B"),
     description |-> Some("BOWL"), quantity |-> Some(1),
     invoice_date |-> Some(<<0, 8>>), price |-> Some(5),
     customer_id |-> Some(13047), country |-> Some("France"), src |-> 0]

EmptyDb ==
    [raw_retail_data |-> <<>>, dim_time |-> <<>>, dim_country |-> <<>>,
     dim_product |-> <<>>, dim_customer |-> <<>>, fact_sales |-> <<>>]

NoKeys == [time |-> <<>>, countries |-> <<>>, products |-> <<>>, customers |-> <<>>]

NoOut ==
    [dim_time |-> Null, dim_country |-> Null, dim_product |-> Null,
     dim_customer |-> Null, fact_sales |-> Null]

\* the tasks of the DAG in the order of their dependencies: each task is
\* downstream of the one before it
Tasks ==
    <<"start_pipeline", "create_tables", "extract_data", "transform_data",
      "validate_quality", "run_dq_checks", "run_quality_monitoring",
      "notify_success", "cleanup_staging", "end_pipeline">>

\* a DAG run none of whose task instances has been scheduled: the state and the
\* try number of each task instance, the dq_report pushed to XCom; returned
\* and warehouse are history fields (the overall_status each try of
\* validate_quality got, the warehouse when validate_quality first ran)
NoDag ==
    [state |-> [t \in Range(Tasks) |-> "none"],
     try_number |-> [t \in Range(Tasks) |-> 1],
     dq_report |-> Null,
     returned |-> <<>>,
     warehouse |-> Null]

\* the report before run_all_checks has run
NoReport ==
    [check_categories |-> <<>>,
     summary |-> [total_checks |-> 0, passed_checks |-> 0,
                  failed_checks |-> 0, critical_failures |-> 0],
     overall_status |-> "UNKNOWN"]

InitExtract ==
    /\ IsExtractSource(source)
    /\ now = 0
    /\ df_clean = <<>>
    /\ stats = <<>>
    /\ reclean = Null
    /\ db \in {EmptyDb, [EmptyDb EXCEPT !.raw_retail_data = <<OldStagingRow>>]}
    /\ pc = "extract"
    /\ i = 0
    /\ err = NoErr
    /\ df_staging = <<>>
    /\ dimension_keys = NoKeys
    /\ out = NoOut
    /\ table_name = ""
    /\ attempt = 1
    /\ log = <<>>
    /\ history = <<>>
    /\ report = NoReport
    /\ category_results = <<>>
    /\ monitoring = Null
    /\ dag = NoDag
    /\ today = 0
    /\ other = Null
    /\ max_active_runs = 1

NextExtract ==
    \/ ReadExcelFails
    \/ ExtractFromExcel
    \/ StagingKeyError
    \/ StagingEmpty
    \/ StagingTruncate
    \/ StagingTruncateFails
    \/ StagingBatch
    \/ StagingBatchFails
    \/ CleanAgain

SpecExtract == InitExtract /\ [][NextExtract]_vars


(***************************************************************************)
(* RetailTransformer: dimension and fact builders                          *)
(***************************************************************************)
\* Series.unique: the distinct values in order of first appearance
unique(s) == Pick(s, {k \in 1..Len(s) : \A j \in 1..(k - 1) : s[j] # s[k]})

Column(df, c) == [k \in 1..Len(df) |-> df[k][c]]

\* the strings of the model in the order Python sorts them
Collation == <<"A", "B", "BOWL", "CUP", "France", "UK">>

Rank(v) == CHOOSE k \in 1..Len(Collation) : Collation[k] = v

RECURSIVE Sorted(_)
\* the strings of S as an ascending sequence
Sorted(S) ==
    IF S = {} THEN <<>>
    ELSE LET least == CHOOSE x \in S : \A y \in S : Rank(x) <= Rank(y)
         IN  <<least>> \o Sorted(S \ {least})

\* pd.to_datetime(...).dt.date of a nullable timestamp
date_only(ts) == IF IsNull(ts) THEN Null ELSE Some(Val(ts)[1])

\* pd.to_datetime of a date: midnight of that day
to_datetime(d) == IF IsNull(d) THEN Null ELSE Some(<<Val(d), 0>>)

\* Series.map(dict): the value under the key, NaN for a null or unknown key
map_keys(x, mapping) ==
    IF ~IsNull(x) /\ Val(x) \in DOMAIN mapping THEN Some(mapping[Val(x)]) ELSE Null

\* transform_time_dimension; the calendar attributes derived from date_value
\* (year, month, quarter, day names, weekend flag) are not modelled
transform_time_dimension(df) ==
    LET dates == unique([k \in 1..Len(df) |-> date_only(df[k].invoice_date)])
    IN  [k \in 1..Len(dates) |-> [date_value |-> to_datetime(dates[k])]]

transform_country_dimension(df) ==
    LET col == Column(df, "country")
        countries == unique(Pick(col, {k \in 1..Len(col) : ~IsNull(col[k])}))
    IN  [k \in 1..Len(countries) |-> [country_name |-> countries[k]]]

\* variant: the first observed description is taken
first_description(x) == x[1]

\* the lambda of transform_product_dimension: x.mode().iloc[0], or x.iloc[0]
\* when x.mode() is empty; Series.mode counts the non-null values and returns
\* the most frequent ones sorted ascending
mode_or_first(x) ==
    LET vals == {Val(x[k]) : k \in {j \in 1..Len(x) : ~IsNull(x[j])}}
        n(v) == Cardinality({k \in 1..Len(x) : x[k] = Some(v)})
        modes == {v \in vals : \A w \in vals : n(v) >= n(w)}
    IN  IF modes = {} THEN x[1] ELSE Some(Sorted(modes)[1])

\* variant: rows are not grouped, one output row per staging row
transform_product_dimension_ungrouped(df) ==
    [k \in 1..Len(df) |->
        [stock_code |-> df[k].stock_code, description |-> df[k].description]]

\* transform_product_dimension: groupby('stock_code') drops the null codes
\* and yields the groups in ascending order of the code
transform_product_dimension(df) ==
    LET codes == Sorted({Val(df[k].stock_code) :
                            k \in {j \in 1..Len(df) : ~IsNull(df[j].stock_code)}})
        group(c) == Pick(df, {k \in 1..Len(df) : df[k].stock_code = Some(c)})
    IN  [k \in 1..Len(codes) |->
            [stock_code |-> Some(codes[k]),
             description |-> mode_or_first(Column(group(codes[k]), "description"))]]

\* variant: the country of the customer's last row is taken
transform_customer_dimension_last(df, country_keys) ==
    LET customers == dropna(Pick(df, {k \in 1..Len(df) :
                         \A j \in (k + 1)..Len(df) :
                             df[j].customer_id # df[k].customer_id}),
                            {"customer_id"})
    IN  [k \in 1..Len(customers) |->
            [customer_id |-> customers[k].customer_id,
             country_key |-> map_keys(customers[k].country, country_keys),
             src |-> customers[k].src]]

\* transform_customer_dimension; customer ids are whole numbers, which
\* astype(int) leaves as they are; src is the history field of the row kept
transform_customer_dimension(df, country_keys) ==
    LET customers == dropna(drop_duplicates(df, {"customer_id"}), {"customer_id"})
    IN  [k \in 1..Len(customers) |->
            [customer_id |-> customers[k].customer_id,
             country_key |-> map_keys(customers[k].country, country_keys),
             src |-> customers[k].src]]

\* Series.astype(str) on a column read from the database: NULL is None
astype_str_sql(x) == IF IsNull(x) THEN <<"N", "o", "n", "e">> ELSE Val(x)

\* variant: only a negative quantity marks a return
fact_is_return_quantity_only(r) == ~IsNull(r.quantity) /\ Val(r.quantity) < 0

\* variant: only the invoice prefix marks a return
fact_is_return_prefix_only(r) == startswith(astype_str_sql(r.invoice), "C")

fact_is_return(r) ==
    startswith(astype_str_sql(r.invoice), "C")
        \/ (~IsNull(r.quantity) /\ Val(r.quantity) < 0)

fact_total_amount(r) == Times(r.quantity, r.price)

\* the columns of sales_fact before the key cleanup; src is the history field
fact_row(r, keys) ==
    [invoice_no |-> r.invoice,
     product_key |-> map_keys(r.stock_code, keys.products),
     customer_key |-> map_keys(r.customer_id, keys.customers),
     time_key |-> map_keys(date_only(r.invoice_date), keys.time),
     country_key |-> map_keys(r.country, keys.countries),
     quantity |-> r.quantity,
     unit_price |-> r.price,
     total_amount |-> fact_total_amount(r),
     is_return |-> fact_is_return(r),
     src |-> r.src]

\* the key columns a fact row must have resolved
fact_required_keys == {"product_key", "customer_key", "time_key"}

\* variant: duplicates are not removed
transform_fact_sales_no_dedup(df, keys) ==
    dropna([k \in 1..Len(df) |-> fact_row(df[k], keys)], fact_required_keys)

transform_fact_sales(df, keys) ==
    drop_duplicates(
        dropna([k \in 1..Len(df) |-> fact_row(df[k], keys)], fact_required_keys),
        {"invoice_no", "product_key", "time_key"})

(***************************************************************************)
(* The transform functions applied to arbitrary staging dataframes         *)
(***************************************************************************)
\* longest dataframe handed to a dimension builder
MaxDimRows == 3

PlainStagingRow ==
    [invoice |-> Some(<<"5">>), stock_code |-> Some("A"),
     description |-> Some("CUP"), quantity |-> Some(2),
     invoice_date |-> Some(<<1, 9>>), price |-> Some(3),
     customer_id |-> Some(17850), country |-> Some("UK")]

\* staging rows that vary every column a foreign key is resolved from
FactRows ==
    {[PlainStagingRow EXCEPT !.invoice = inv, !.stock_code = sc,
                             !.customer_id = cu, !.invoice_date = dt,
                             !.country = co] :
        inv \in {Some(<<"5">>), Some(<<"C", "5">>)},
        sc \in {Some("A"), Some("B")},
        cu \in {Some(17850), Some(13047)},
        dt \in {Some(<<1, 9>>), Some(<<1, 10>>), Some(<<2, 9>>)},
        co \in {Some("UK"), Some("France")}}

ProductRows ==
    {[PlainStagingRow EXCEPT !.stock_code = sc, !.description = de] :
        sc \in {Some("A"), Some("B")},
        de \in {Some("BOWL"), Some("CUP"), Null}}

CustomerRows ==
    {[PlainStagingRow EXCEPT !.customer_id = cu, !.country = co] :
        cu \in {Some(17850), Some(13047), Null},
        co \in {Some("UK"), Some("France"), Null}}

TimeRows ==
    {[PlainStagingRow EXCEPT !.invoice_date = dt] :
        dt \in {Some(<<1, 9>>), Some(<<1, 10>>), Some(<<2, 9>>)}}

\* the dataframe whose rows are f[1], f[2], ...; src numbers the rows
Frame(f) == [k \in 1..Len(f) |-> [src |-> k] @@ f[k]]

\* a key mapping over the natural keys first, second: both, or the first only
KeyMappings(first, second) ==
    {(first :> 1) @@ (second :> 2), (first :> 1)}

AllKeyMappings ==
    [time : KeyMappings(1, 2),
     countries : KeyMappings("UK", "France"),
     products : KeyMappings("A", "B"),
     customers : KeyMappings(17850, 13047)]

\* a call of one transform function on a dataframe of its family
IsTransformCall(fn, df, keys) ==
    \/ /\ fn = "transform_fact_sales"
       /\ \E n \in 1..MaxStagingRows : \E f \in [1..n -> FactRows] : df = Frame(f)
       /\ keys \in AllKeyMappings
    \/ /\ fn = "transform_product_dimension"
       /\ \E n \in 1..MaxDimRows : \E f \in [1..n -> ProductRows] : df = Frame(f)
       /\ keys = NoKeys
    \/ /\ fn \in {"transform_customer_dimension", "transform_country_dimension"}
       /\ \E n \in 1..MaxDimRows : \E f \in [1..n -> CustomerRows] : df = Frame(f)
       /\ keys \in {[NoKeys EXCEPT !.countries = m] :
                       m \in KeyMappings("UK", "France")}
    \/ /\ fn = "transform_time_dimension"
       /\ \E n \in 1..MaxDimRows : \E f \in [1..n -> TimeRows] : df = Frame(f)
       /\ keys = NoKeys

InitTransform ==
    /\ source = [columns |-> FullHeader, rows |-> <<>>]
    /\ now = 0
    /\ df_clean = <<>>
    /\ stats = <<>>
    /\ reclean = Null
    /\ db = EmptyDb
    /\ i = 0
    /\ err = NoErr
    /\ out = NoOut
    /\ table_name = ""
    /\ \E fn \in {"transform_fact_sales", "transform_product_dimension",
                  "transform_customer_dimension", "transform_country_dimension",
                  "transform_time_dimension"} :
          /\ pc = fn
          /\ IsTransformCall(fn, df_staging, dimension_keys)
    /\ attempt = 1
    /\ log = <<>>
    /\ history = <<>>
    /\ report = NoReport
    /\ category_results = <<>>
    /\ monitoring = Null
    /\ dag = NoDag
    /\ today = 0
    /\ other = Null
    /\ max_active_runs = 1

extract_vars == <<source, now, df_clean, stats, reclean, db, i, err>>

TransformTime ==
    /\ pc = "transform_time_dimension"
    /\ out' = [out EXCEPT !.dim_time = Some(transform_time_dimension(df_staging))]
    /\ pc' = "returned"
    /\ UNCHANGED <<extract_vars, df_staging, dimension_keys, table_name, run_vars, dq_vars, dag_vars>>

TransformCountry ==
    /\ pc = "transform_country_dimension"
    /\ out' = [out EXCEPT !.dim_country = Some(transform_country_dimension(df_staging))]
    /\ pc' = "returned"
    /\ UNCHANGED <<extract_vars, df_staging, dimension_keys, table_name, run_vars, dq_vars, dag_vars>>

TransformProduct ==
    /\ pc = "transform_product_dimension"
    /\ out' = [out EXCEPT !.dim_product = Some(transform_product_dimension(df_staging))]
    /\ pc' = "returned"
    /\ UNCHANGED <<extract_vars, df_staging, dimension_keys, table_name, run_vars, dq_vars, dag_vars>>

TransformCustomer ==
    /\ pc = "transform_customer_dimension"
    /\ out' = [out EXCEPT !.dim_customer =
                  Some(transform_customer_dimension(df_staging, dimension_keys.countries))]
    /\ pc' = "returned"
    /\ UNCHANGED <<extract_vars, df_staging, dimension_keys, table_name, run_vars, dq_vars, dag_vars>>

TransformFact ==
    /\ pc = "transform_fact_sales"
    /\ out' = [out EXCEPT !.fact_sales =
                  Some(transform_fact_sales(df_staging, dimension_keys))]
    /\ pc' = "returned"
    /\ UNCHANGED <<extract_vars, df_staging, dimension_keys, table_name, run_vars, dq_vars, dag_vars>>

NextTransform ==
    \/ TransformTime
    \/ TransformCountry
    \/ TransformProduct
    \/ TransformCustomer
    \/ TransformFact

SpecTransform == InitTransform /\ [][NextTransform]_vars

(***************************************************************************)
(* The transformation task: run_full_transformation, load_dimension,        *)
(* load_fact, one action per database statement                            *)
(***************************************************************************)
\* timestamps in ascending order
ts_le(a, b) == a[1] < b[1] \/ (a[1] = b[1] /\ a[2] <= b[2])

\* the results load_staging_data can return: the rows without a null key,
\* ORDER BY invoice_date; rows of equal invoice_date come in any order
staging_results(table) ==
    LET rows == dropna(table, {"customer_id", "stock_code", "invoice_date"})
        n == Len(rows)
    IN  {[k \in 1..n |-> rows[p[k]]] :
            p \in {q \in [1..n -> 1..n] :
                      /\ \A a, b \in 1..n : a # b => q[a] # q[b]
                      /\ \A a, b \in 1..n :
                            a < b => ts_le(Val(rows[q[a]].invoice_date),
                                           Val(rows[q[b]].invoice_date))}}

\* the tables holding a foreign key into table t (create_tables.sql): fact_sales
\* references the four dimensions, dim_customer references dim_country
referencing(t) ==
    CASE t = "dim_country" -> {"dim_customer", "fact_sales"}
      [] t \in {"dim_time", "dim_product", "dim_customer"} -> {"fact_sales"}
      [] OTHER -> {}

\* variant: the statement removes no row
truncate_skipped(d, t) == d

\* variant: TRUNCATE without CASCADE, the referencing tables keep their rows
truncate_no_cascade(d, t) == [d EXCEPT ![t] = <<>>]

\* TRUNCATE TABLE t ... CASCADE
truncate_cascade(d, t) ==
    [u \in DOMAIN d |-> IF u = t \/ u \in referencing(t) THEN <<>> ELSE d[u]]

\* the serial primary key column of a dimension table
key_column(t) ==
    CASE t = "dim_time" -> "time_key"
      [] t = "dim_country" -> "country_key"
      [] t = "dim_product" -> "product_key"
      [] t = "dim_customer" -> "customer_key"

\* the column key_mapping is keyed by
natural_column(t) ==
    CASE t = "dim_time" -> "date_value"
      [] t = "dim_country" -> "country_name"
      [] t = "dim_product" -> "stock_code"
      [] t = "dim_customer" -> "customer_id"

\* to_sql append of rows to a table truncated with RESTART IDENTITY: the
\* serial key of a row is its position in the table
append_with_keys(table, rows, t) ==
    table \o [k \in 1..Len(rows) |-> (key_column(t) :> (Len(table) + k)) @@ rows[k]]

\* the natural key of a persisted row as key_mapping spells it
natural_key(r, t) ==
    IF t = "dim_time" THEN Val(date_only(r.date_value))
    ELSE Val(r[natural_column(t)])

\* variant: only the first persisted row is read back
key_mapping_first_row(table, t) ==
    [nk \in {natural_key(table[k], t) : k \in 1..Min(1, Len(table))} |->
        table[1][key_column(t)]]

\* dict(zip(natural keys, surrogate keys)): a later row overrides an earlier one
key_mapping(table, t) ==
    [nk \in {natural_key(table[k], t) : k \in 1..Len(table)} |->
        LET last == CHOOSE k \in 1..Len(table) :
                /\ natural_key(table[k], t) = nk
                /\ \A j \in (k + 1)..Len(table) : natural_key(table[j], t) # nk
        IN  table[last][key_column(t)]]

\* the entry of dimension_keys a dimension's mapping is stored under
keys_entry(t) ==
    CASE t = "dim_time" -> "time"
      [] t = "dim_country" -> "countries"
      [] t = "dim_product" -> "products"
      [] t = "dim_customer" -> "customers"

\* the dataframe run_full_transformation passes to load_dimension for table t
dimension_df(t) == Val(out[t])

\* a log entry: a step of run_full_transformation starting, returning or
\* raising (the logger calls at the head and the tail of each function)
Step(fn, table, at) == [step |-> fn, table |-> table, at |-> at]

\* the entries of a step that ran to its return without a database statement
Ran(fn) == <<Step(fn, "", "start"), Step(fn, "", "return")>>

\* the history entry of a finished call: how it ended, what it logged and the
\* warehouse it left
Finished(outcome, entries, d) == [outcome |-> outcome, log |-> entries, db |-> d]

\* except Exception: logger.error, raise; the exception leaves
\* run_full_transformation and the task instance fails, the warehouse stays as
\* the failed statement left it
Raises(entries) ==
    /\ pc' = "failed"
    /\ err' = Raise("DatabaseError")
    /\ log' = log \o entries
    /\ history' = Append(history, Finished("raised", log \o entries, db))
    /\ UNCHANGED <<source, now, df_clean, stats, reclean, db, i, xform_vars,
                   attempt, dq_vars, dag_vars>>

\* run_full_transformation returns its statistics
Returns(entries, d) ==
    /\ pc' = "transformed"
    /\ log' = log \o entries
    /\ history' = Append(history, Finished("returned", log \o entries, d))

\* SELECT * FROM raw_retail_data ... ; then the time, country and product builders
LoadStagingData ==
    /\ pc = "extracted"
    /\ \E df \in staging_results(db.raw_retail_data) :
          /\ df_staging' = df
          /\ out' = [NoOut EXCEPT
                        !.dim_time = Some(transform_time_dimension(df)),
                        !.dim_country = Some(transform_country_dimension(df)),
                        !.dim_product = Some(transform_product_dimension(df))]
    /\ table_name' = "dim_time"
    /\ pc' = "load_dimension"
    /\ log' = log \o Ran("load_staging_data") \o Ran("transform_time_dimension")
                  \o Ran("transform_country_dimension")
                  \o Ran("transform_product_dimension")
    /\ UNCHANGED <<extract_vars, dimension_keys, attempt, history, dq_vars, dag_vars>>

LoadStagingDataFails ==
    /\ pc = "extracted"
    /\ Raises(<<Step("load_staging_data", "", "start"),
                Step("load_staging_data", "", "raise")>>)

\* variant: load_dimension appends to the rows the table holds
DimTruncateAppends ==
    /\ pc = "load_dimension"
    /\ i' = 0
    /\ pc' = IF Len(dimension_df(table_name)) > 0 THEN "dimension_batch" ELSE "read_keys"
    /\ log' = Append(log, Step("load_dimension", table_name, "start"))
    /\ UNCHANGED <<source, now, df_clean, stats, reclean, db, err, xform_vars,
                   attempt, history, dq_vars, dag_vars>>

\* load_dimension: TRUNCATE TABLE table_name RESTART IDENTITY CASCADE
DimTruncate ==
    /\ pc = "load_dimension"
    /\ db' = truncate_cascade(db, table_name)
    /\ i' = 0
    /\ pc' = IF Len(dimension_df(table_name)) > 0 THEN "dimension_batch" ELSE "read_keys"
    /\ log' = Append(log, Step("load_dimension", table_name, "start"))
    /\ UNCHANGED <<source, now, df_clean, stats, reclean, err, xform_vars,
                   attempt, history, dq_vars, dag_vars>>

DimTruncateFails ==
    /\ pc = "load_dimension"
    /\ Raises(<<Step("load_dimension", table_name, "start"),
                Step("load_dimension", table_name, "raise")>>)

\* the tables a row of table t holds a foreign key into
referenced(t) == {u \in {"dim_time", "dim_country", "dim_product", "dim_customer"} :
                    t \in referencing(u)}

\* some row of `rows`, to be inserted into table t of warehouse d, holds a
\* foreign key that names no row of the referenced table: the insert raises
violates_foreign_key(d, t, rows) ==
    \E k \in 1..Len(rows) : \E u \in referenced(t) :
        /\ ~IsNull(rows[k][key_column(u)])
        /\ \A j \in 1..Len(d[u]) : Some(d[u][j][key_column(u)]) # rows[k][key_column(u)]

\* load_dimension: one batch_df.to_sql(table_name, if_exists='append')
DimBatch ==
    /\ pc = "dimension_batch"
    /\ ~violates_foreign_key(db, table_name, batch(dimension_df(table_name), i))
    /\ db' = [db EXCEPT ![table_name] =
                 append_with_keys(@, batch(dimension_df(table_name), i), table_name)]
    /\ i' = i + batch_size
    /\ pc' = IF i + batch_size < Len(dimension_df(table_name))
             THEN "dimension_batch" ELSE "read_keys"
    /\ UNCHANGED <<source, now, df_clean, stats, reclean, err, xform_vars,
                   run_vars, dq_vars, dag_vars>>

DimBatchFails ==
    /\ pc = "dimension_batch"
    /\ Raises(<<Step("load_dimension", table_name, "raise")>>)

\* variant: the customer dimension is built and loaded before the product
\* dimension
next_table_customer_early(t) ==
    CASE t = "dim_time" -> "dim_country"
      [] t = "dim_country" -> "dim_customer"
      [] t = "dim_customer" -> "dim_product"
      [] t = "dim_product" -> "fact_sales"

\* the table run_full_transformation loads after table t
next_table(t) ==
    CASE t = "dim_time" -> "dim_country"
      [] t = "dim_country" -> "dim_product"
      [] t = "dim_product" -> "dim_customer"
      [] t = "dim_customer" -> "fact_sales"

\* load_dimension: SELECT * FROM table_name and the key mapping; then
\* run_full_transformation up to its next database statement: the customer
\* dimension is built before its load, the facts before theirs
DimReadKeys ==
    /\ pc = "read_keys"
    /\ LET keys == [dimension_keys EXCEPT
                       ![keys_entry(table_name)] = key_mapping(db[table_name], table_name)]
           returned == Append(log, Step("load_dimension", table_name, "return"))
           next == next_table(table_name)
       IN  /\ dimension_keys' = keys
           /\ table_name' = next
           /\ pc' = IF next = "fact_sales" THEN "load_fact" ELSE "load_dimension"
           /\ CASE next = "dim_customer" ->
                     /\ out' = [out EXCEPT !.dim_customer =
                           Some(transform_customer_dimension(df_staging, keys.countries))]
                     /\ log' = returned \o Ran("transform_customer_dimension")
                [] next = "fact_sales" ->
                     /\ out' = [out EXCEPT !.fact_sales =
                           Some(transform_fact_sales(df_staging, keys))]
                     /\ log' = returned \o Ran("transform_fact_sales")
                [] OTHER ->
                     /\ out' = out
                     /\ log' = returned
    /\ UNCHANGED <<extract_vars, df_staging, attempt, history, dq_vars, dag_vars>>

DimReadKeysFails ==
    /\ pc = "read_keys"
    /\ Raises(<<Step("load_dimension", table_name, "raise")>>)

\* load_fact with total_rows = 0: no truncate, no batch, returns
FactEmpty ==
    /\ pc = "load_fact"
    /\ Len(Val(out.fact_sales)) = 0
    /\ Returns(<<Step("load_fact", "fact_sales", "start"),
                 Step("load_fact", "fact_sales", "return")>>, db)
    /\ UNCHANGED <<source, now, df_clean, stats, reclean, db, i, err, xform_vars,
                   attempt, dq_vars, dag_vars>>

\* load_fact: TRUNCATE TABLE fact_sales CASCADE
FactTruncate ==
    /\ pc = "load_fact"
    /\ Len(Val(out.fact_sales)) > 0
    /\ db' = truncate_cascade(db, "fact_sales")
    /\ i' = 0
    /\ pc' = "fact_batch"
    /\ log' = Append(log, Step("load_fact", "fact_sales", "start"))
    /\ UNCHANGED <<source, now, df_clean, stats, reclean, err, xform_vars,
                   attempt, history, dq_vars, dag_vars>>

FactTruncateFails ==
    /\ pc = "load_fact"
    /\ Len(Val(out.fact_sales)) > 0
    /\ Raises(<<Step("load_fact", "fact_sales", "start"),
                Step("load_fact", "fact_sales", "raise")>>)

\* load_fact: one batch_df.to_sql(table_name, if_exists='append')
FactBatch ==
    /\ pc = "fact_batch"
    /\ ~violates_foreign_key(db, "fact_sales", batch(Val(out.fact_sales), i))
    /\ db' = [db EXCEPT !.fact_sales = @ \o batch(Val(out.fact_sales), i)]
    /\ i' = i + batch_size
    /\ IF i + batch_size < Len(Val(out.fact_sales))
       THEN /\ pc' = "fact_batch"
            /\ UNCHANGED <<log, history>>
       ELSE Returns(<<Step("load_fact", "fact_sales", "return")>>, db')
    /\ UNCHANGED <<source, now, df_clean, stats, reclean, err, xform_vars,
                   attempt, dq_vars, dag_vars>>

\* variant: the failed batch takes the batches before it along
FactBatchFailsRollsBack ==
    /\ pc = "fact_batch"
    /\ pc' = "failed"
    /\ err' = Raise("DatabaseError")
    /\ db' = [db EXCEPT !.fact_sales = <<>>]
    /\ log' = Append(log, Step("load_fact", "fact_sales", "raise"))
    /\ history' = Append(history, Finished("raised", log', db'))
    /\ UNCHANGED <<source, now, df_clean, stats, reclean, i, xform_vars,
                   attempt, dq_vars, dag_vars>>

FactBatchFails ==
    /\ pc = "fact_batch"
    /\ Raises(<<Step("load_fact", "fact_sales", "raise")>>)

\* the Airflow retry of the failed transform task ('retries' of default_args)
retries == 1

\* calls of run_full_transformation a behaviour holds at most
MaxRuns == 2

\* a new RetailTransformer starts run_full_transformation from its first line
Restart ==
    /\ pc' = "extracted"
    /\ err' = NoErr
    /\ i' = 0
    /\ df_staging' = <<>>
    /\ dimension_keys' = NoKeys
    /\ out' = NoOut
    /\ table_name' = ""
    /\ log' = <<>>
    /\ UNCHANGED <<source, now, df_clean, stats, reclean, db, history, dq_vars, dag_vars>>

\* the scheduler runs the failed transform task again, once
RetryTransformation ==
    /\ pc = "failed"
    /\ log # <<>>
    /\ attempt <= retries
    /\ Len(history) < MaxRuns
    /\ attempt' = attempt + 1
    /\ Restart

\* the transform task runs again over the staging table as it is
RunTransformationAgain ==
    /\ pc = "transformed"
    /\ Len(history) < MaxRuns
    /\ attempt' = 1
    /\ Restart

(***************************************************************************)
(* The pipeline: the extraction task, then the transformation task         *)
(***************************************************************************)
\* sheet rows that vary the customer id, the invoice id and the measures
PipelineRows ==
    {[PlainRow EXCEPT !.CustomerID = cu, !.InvoiceNo = inv,
                      !.Quantity = q, !.UnitPrice = p] :
        cu \in {Some(17850), Null},
        inv \in {Some(<<"5">>), Some(<<"C", "5">>)},
        q \in {Some(-1), Some(2)},
        p \in {Some(3), Some(-2)}}
    \cup {[PlainRow EXCEPT !.StockCode = Null],
          [PlainRow EXCEPT !.InvoiceDate = Null],
          [PlainRow EXCEPT !.InvoiceNo = Null],
          [PlainRow EXCEPT !.Quantity = Null],
          [PlainRow EXCEPT !.UnitPrice = Null],
          [PlainRow EXCEPT !.StockCode = Some("B"), !.InvoiceDate = Some(<<2, 9>>),
                           !.CustomerID = Some(13047), !.Country = Null]}

IsPipelineSource(src) ==
    \/ \E n \in 0..MaxRows : \E f \in [1..n -> PipelineRows] :
          src = [columns |-> FullHeader, rows |-> Sheet(f)]
    \/ \E h \in ShortHeaders :
          src = [columns |-> h, rows |-> Sheet(<<PlainRow>>)]

\* the warehouse an earlier run over OldStagingRow left behind
OldDb ==
    [raw_retail_data |-> <<OldStagingRow>>,
     dim_time |-> <<[time_key |-> 1, date_value |-> Some(<<0, 0>>)]>>,
     dim_country |-> <<[country_key |-> 1, country_name |-> Some("France")]>>,
     dim_product |-> <<[product_key |-> 1, stock_code |-> Some("B"),
                        description |-> Some("BOWL")]>>,
     dim_customer |-> <<[customer_key |-> 1, customer_id |-> Some(13047),
                         country_key |-> Some(1), src |-> 0]>>,
     fact_sales |-> <<[invoice_no |-> Some(<<"4">>), product_key |-> Some(1),
                       customer_key |-> Some(1), time_key |-> Some(1),
                       country_key |-> Some(1), quantity |-> Some(1),
                       unit_price |-> Some(5), total_amount |-> Some(5),
                       is_return |-> FALSE, src |-> 0]>>]

Init ==
    /\ IsPipelineSource(source)
    /\ now = 0
    /\ df_clean = <<>>
    /\ stats = <<>>
    /\ reclean = Null
    /\ db \in {EmptyDb, OldDb}
    /\ pc = "extract"
    /\ i = 0
    /\ err = NoErr
    /\ df_staging = <<>>
    /\ dimension_keys = NoKeys
    /\ out = NoOut
    /\ table_name = ""
    /\ attempt = 1
    /\ log = <<>>
    /\ history = <<>>
    /\ report = NoReport
    /\ category_results = <<>>
    /\ monitoring = Null
    /\ dag = NoDag
    /\ today = 0
    /\ other = Null
    /\ max_active_runs = 1

Next ==
    \/ ReadExcelFails
    \/ ExtractFromExcel
    \/ StagingKeyError
    \/ StagingEmpty
    \/ StagingTruncate
    \/ StagingTruncateFails
    \/ StagingBatch
    \/ StagingBatchFails
    \/ LoadStagingData
    \/ LoadStagingDataFails
    \/ DimTruncate
    \/ DimTruncateFails
    \/ DimBatch
    \/ DimBatchFails
    \/ DimReadKeys
    \/ DimReadKeysFails
    \/ FactEmpty
    \/ FactTruncate
    \/ FactTruncateFails
    \/ FactBatch
    \/ FactBatchFails

Spec == Init /\ [][Next]_vars

(***************************************************************************)
(* The transform task run, retried and run again over one staging table    *)
(***************************************************************************)
\* staging rows: two sales of one product on one day, sales sharing an
\* invoice_date, a customer seen with two countries, rows without a customer
\* or a country
ReloadRows ==
    {PlainStagingRow,
     [PlainStagingRow EXCEPT !.invoice_date = Some(<<1, 10>>)],
     [PlainStagingRow EXCEPT !.stock_code = Some("B"), !.country = Some("France")],
     [PlainStagingRow EXCEPT !.stock_code = Some("B"), !.country = Some("France"),
                             !.customer_id = Some(13047),
                             !.invoice_date = Some(<<2, 9>>)],
     [PlainStagingRow EXCEPT !.invoice = Some(<<"C", "5">>), !.customer_id = Null],
     [PlainStagingRow EXCEPT !.invoice = Some(<<"C", "5">>), !.country = Null,
                             !.customer_id = Some(13047)]}

\* a warehouse whose staging table is as load_to_staging leaves it (at most
\* MaxStagingRows rows, no two with the same invoice, stock code and invoice
\* date) and whose other tables are empty or as an earlier run left them
IsReloadDb(d) ==
    \E old \in {EmptyDb, OldDb} :
        \E n \in 0..MaxStagingRows : \E f \in [1..n -> ReloadRows] :
            /\ \A a, b \in 1..n :
                  a # b => <<f[a].invoice, f[a].stock_code, f[a].invoice_date>>
                             # <<f[b].invoice, f[b].stock_code, f[b].invoice_date>>
            /\ d = [old EXCEPT !.raw_retail_data = Frame(f)]

InitReload ==
    /\ source = [columns |-> FullHeader, rows |-> <<>>]
    /\ now = 0
    /\ df_clean = <<>>
    /\ stats = <<>>
    /\ reclean = Null
    /\ IsReloadDb(db)
    /\ pc = "extracted"
    /\ i = 0
    /\ err = NoErr
    /\ df_staging = <<>>
    /\ dimension_keys = NoKeys
    /\ out = NoOut
    /\ table_name = ""
    /\ attempt = 1
    /\ log = <<>>
    /\ history = <<>>
    /\ report = NoReport
    /\ category_results = <<>>
    /\ monitoring = Null
    /\ dag = NoDag
    /\ today = 0
    /\ other = Null
    /\ max_active_runs = 1

NextReload ==
    \/ LoadStagingData
    \/ LoadStagingDataFails
    \/ DimTruncate
    \/ DimTruncateFails
    \/ DimBatch
    \/ DimBatchFails
    \/ DimReadKeys
    \/ DimReadKeysFails
    \/ FactEmpty
    \/ FactTruncate
    \/ FactTruncateFails
    \/ FactBatch
    \/ FactBatchFails
    \/ RetryTransformation
    \/ RunTransformationAgain

SpecReload == InitReload /\ [][NextReload]_vars

(***************************************************************************)
(* DataQualityChecker (data_quality.py): run_all_checks                    *)
(***************************************************************************)
\* a threshold is the fraction <<numerator, denominator>> its literal denotes
\* _load_quality_rules, in the order the dictionary and its lists are iterated;
\* a check's query is identified by the check's name
quality_rules ==
    <<[category |-> "raw_data_checks", name |-> "null_critical_fields",
       description |-> "Check for nulls in critical fields",
       threshold |-> <<5, 100>>, critical |-> TRUE],
      [category |-> "raw_data_checks", name |-> "duplicate_records",
       description |-> "Check for duplicate records",
       threshold |-> <<1, 100>>, critical |-> FALSE],
      [category |-> "raw_data_checks", name |-> "data_range_validation",
       description |-> "Validate data ranges",
       threshold |-> <<1, 10>>, critical |-> FALSE],
      [category |-> "warehouse_checks", name |-> "referential_integrity",
       description |-> "Check referential integrity",
       threshold |-> <<0, 1>>, critical |-> TRUE],
      [category |-> "warehouse_checks", name |-> "business_logic",
       description |-> "Validate business calculations",
       threshold |-> <<0, 1>>, critical |-> TRUE],
      [category |-> "performance_checks", name |-> "data_freshness",
       description |-> "Check data freshness",
       threshold |-> <<48, 1>>, critical |-> FALSE],
      [category |-> "performance_checks", name |-> "row_count_validation",
       description |-> "Validate expected row counts",
       threshold |-> <<95, 100>>, critical |-> TRUE]>>

\* num / den <= threshold and num / den >= threshold, for den > 0; the
\* quotients of the counts at hand are far enough from the threshold, or equal
\* to it, for the floating-point comparison to agree with the exact one
rate_le(num, den, threshold) == num * threshold[2] <= threshold[1] * den
rate_ge(num, den, threshold) == num * threshold[2] >= threshold[1] * den

null_critical_fields(result, threshold) ==
    IF result.total_rows = 0 THEN FALSE
    ELSE rate_le(result.null_customer_id + result.null_stock_code
                     + result.null_invoice_date,
                 result.total_rows * 3, threshold)

duplicate_records(result, threshold) ==
    IF result.total_records = 0 THEN TRUE
    ELSE rate_le(result.total_records - result.unique_combinations,
                 result.total_records, threshold)

data_range_validation(result, threshold) ==
    IF result.total_rows = 0 THEN FALSE
    ELSE rate_le(result.invalid_price + result.suspicious_quantity,
                 result.total_rows, threshold)

referential_integrity(result) ==
    /\ result.orphaned_products = 0
    /\ result.orphaned_customers = 0
    /\ result.orphaned_times = 0

business_logic(result) ==
    /\ result.calculation_errors = 0
    /\ result.negative_non_returns = 0

data_freshness(result, threshold) ==
    rate_le(Val(result.hours_since_last_load), 1, threshold)

\* variant: the retention rate must exceed the threshold
row_count_validation_strict(result, threshold) ==
    IF result.raw_count = 0 THEN FALSE
    ELSE ~rate_le(result.fact_count, result.raw_count, threshold)

row_count_validation(result, threshold) ==
    IF result.raw_count = 0 THEN FALSE
    ELSE rate_ge(result.fact_count, result.raw_count, threshold)

\* _evaluate_check_result
evaluate_check_result(check, result) ==
    CASE check.name = "null_critical_fields" ->
            null_critical_fields(result, check.threshold)
      [] check.name = "duplicate_records" ->
            duplicate_records(result, check.threshold)
      [] check.name = "data_range_validation" ->
            data_range_validation(result, check.threshold)
      [] check.name = "referential_integrity" -> referential_integrity(result)
      [] check.name = "business_logic" -> business_logic(result)
      [] check.name = "data_freshness" -> data_freshness(result, check.threshold)
      [] check.name = "row_count_validation" ->
            row_count_validation(result, check.threshold)
      [] OTHER -> FALSE

\* the exception _evaluate_check_result raises on a result row, "" if none:
\* MAX(created_at) of an empty staging table is NULL, and None <= 48 is a
\* TypeError
evaluation_error(check, result) ==
    IF check.name = "data_freshness" /\ IsNull(result.hours_since_last_load)
    THEN "TypeError" ELSE ""

\* what executing a check's query can give: a result row, or an exception
Row(r) == [error |-> "", row |-> r]
QueryFails == [error |-> "DatabaseError", row |-> <<>>]

query_outcomes(name) ==
    {QueryFails} \cup
    CASE name = "null_critical_fields" ->
            {Row([total_rows |-> n, null_customer_id |-> c,
                  null_stock_code |-> 0, null_invoice_date |-> 0]) :
                <<n, c>> \in {<<0, 0>>, <<20, 3>>, <<20, 4>>}}
      [] name = "duplicate_records" ->
            {Row([total_records |-> n, unique_combinations |-> u]) :
                <<n, u>> \in {<<0, 0>>, <<100, 99>>, <<100, 98>>}}
      [] name = "data_range_validation" ->
            {Row([total_rows |-> n, invalid_price |-> p,
                  suspicious_quantity |-> 0, zero_quantity |-> 0]) :
                <<n, p>> \in {<<0, 0>>, <<10, 1>>, <<10, 2>>}}
      [] name = "referential_integrity" ->
            {Row([orphaned_products |-> 0, orphaned_customers |-> c,
                  orphaned_times |-> 0]) : c \in {0, 1}}
      [] name = "business_logic" ->
            {Row([total_sales |-> 10, calculation_errors |-> e,
                  negative_non_returns |-> n]) :
                <<e, n>> \in {<<0, 0>>, <<1, 0>>, <<0, 1>>}}
      [] name = "data_freshness" ->
            {Row([hours_since_last_load |-> h]) : h \in {Some(48), Some(49), Null}}
      [] name = "row_count_validation" ->
            {Row([raw_count |-> r, fact_count |-> f,
                  customer_count |-> 1, product_count |-> 1]) :
                <<r, f>> \in {<<0, 0>>, <<1000, 940>>, <<1000, 950>>}}

\* the result of the except clause of run_quality_check
check_error(check, error, t) ==
    [check_name |-> check.name,
     description |-> check.description,
     results |-> <<>>,
     passed |-> FALSE,
     critical |-> check.critical,
     error |-> error,
     timestamp |-> t]

\* variant: a check that raised is reported as passed
run_quality_check_error_passes(check, outcome, t) ==
    IF outcome.error # "" \/ evaluation_error(check, outcome.row) # ""
    THEN [check_error(check, "DatabaseError", t) EXCEPT !.passed = TRUE]
    ELSE [check_name |-> check.name,
          description |-> check.description,
          results |-> outcome.row,
          passed |-> evaluate_check_result(check, outcome.row),
          critical |-> check.critical,
          threshold |-> check.threshold,
          timestamp |-> t]

\* run_quality_check on a check whose query gives `outcome`, at time t
run_quality_check(check, outcome, t) ==
    IF outcome.error # "" THEN check_error(check, outcome.error, t)
    ELSE IF evaluation_error(check, outcome.row) # ""
    THEN check_error(check, evaluation_error(check, outcome.row), t)
    ELSE [check_name |-> check.name,
          description |-> check.description,
          results |-> outcome.row,
          passed |-> evaluate_check_result(check, outcome.row),
          critical |-> check.critical,
          threshold |-> check.threshold,
          timestamp |-> t]

\* variant: a failed check is not counted
update_summary_passes_only(summary, result) ==
    [summary EXCEPT
        !.total_checks = @ + 1,
        !.passed_checks = IF result.passed THEN @ + 1 ELSE @]

\* run_all_checks: "Update summary"
update_summary(summary, result) ==
    [summary EXCEPT
        !.total_checks = @ + 1,
        !.passed_checks = IF result.passed THEN @ + 1 ELSE @,
        !.failed_checks = IF result.passed THEN @ ELSE @ + 1,
        !.critical_failures =
            IF ~result.passed /\ result.critical THEN @ + 1 ELSE @]

\* variant: any failed check gives WARNING
overall_status_warning_first(summary) ==
    IF summary.failed_checks > 0 THEN "WARNING"
    ELSE IF summary.critical_failures > 0 THEN "CRITICAL_FAILURE"
    ELSE "PASS"

\* run_all_checks: "Determine overall status"
overall_status(summary) ==
    IF summary.critical_failures > 0 THEN "CRITICAL_FAILURE"
    ELSE IF summary.failed_checks > 0 THEN "WARNING"
    ELSE "PASS"

\* one pass of the loop of run_all_checks over check i + 1: run the check
\* (which logs its start, and the exception if one is caught), append its
\* result to the category's list, update the summary; the list is stored in
\* the report after the category's last check
RunQualityCheck ==
    /\ pc = "run_all_checks"
    /\ i < Len(quality_rules)
    /\ \E outcome \in query_outcomes(quality_rules[i + 1].name) :
          LET check == quality_rules[i + 1]
              result == run_quality_check(check, outcome, now)
              results == Append(category_results, result)
              last == i + 1 = Len(quality_rules)
                        \/ quality_rules[i + 2].category # check.category
          IN  /\ report' = [report EXCEPT
                    !.summary = update_summary(@, result),
                    !.check_categories =
                        IF last THEN (check.category :> results) @@ @ ELSE @]
              /\ category_results' = IF last THEN <<>> ELSE results
              /\ log' = log \o <<Step("run_quality_check", check.name, "start")>>
                          \o (IF "error" \in DOMAIN result
                              THEN <<Step("run_quality_check", check.name, "raise")>>
                              ELSE <<>>)
    /\ i' = i + 1
    /\ now' = now + 1
    /\ UNCHANGED <<source, df_clean, stats, reclean, db, pc, err, xform_vars,
                   attempt, history, dag_vars>>

\* run_all_checks after the loop: the overall status, and the return
ReturnReport ==
    /\ pc = "run_all_checks"
    /\ i = Len(quality_rules)
    /\ report' = [report EXCEPT !.overall_status = overall_status(report.summary)]
    /\ pc' = "reported"
    /\ UNCHANGED <<source, now, df_clean, stats, reclean, db, i, err, xform_vars,
                   run_vars, category_results, dag_vars>>

InitQuality ==
    /\ source = [columns |-> FullHeader, rows |-> <<>>]
    /\ now = 0
    /\ df_clean = <<>>
    /\ stats = <<>>
    /\ reclean = Null
    /\ db = EmptyDb
    /\ pc = "run_all_checks"
    /\ i = 0
    /\ err = NoErr
    /\ df_staging = <<>>
    /\ dimension_keys = NoKeys
    /\ out = NoOut
    /\ table_name = ""
    /\ attempt = 1
    /\ log = <<>>
    /\ history = <<>>
    /\ report = NoReport
    /\ category_results = <<>>
    /\ monitoring = Null
    /\ dag = NoDag
    /\ today = 0
    /\ other = Null
    /\ max_active_runs = 1

NextQuality ==
    \/ RunQualityCheck
    \/ ReturnReport

SpecQuality == InitQuality /\ [][NextQuality]_vars

(***************************************************************************)
(* RetailLoader (load/retail_load.py): the validation of the warehouse     *)
(***************************************************************************)
\* f LEFT JOIN t ON f.key = t.key WHERE t.key IS NULL, counted: the fact rows
\* whose key into dimension t is null or names no row of t
orphaned(d, t) ==
    Cardinality({k \in 1..Len(d.fact_sales) :
        ~\E j \in 1..Len(d[t]) :
            Some(d[t][j][key_column(t)]) = d.fact_sales[k][key_column(t)]})

validate_referential_integrity(d) ==
    [orphaned_products |-> orphaned(d, "dim_product"),
     orphaned_customers |-> orphaned(d, "dim_customer"),
     orphaned_times |-> orphaned(d, "dim_time"),
     orphaned_countries |-> orphaned(d, "dim_country")]

\* the date_value of the dim_time row a fact row joins, as a set (empty when
\* the row joins none)
fact_dates(d, f) ==
    {Val(d.dim_time[j].date_value)[1] :
        j \in {n \in 1..Len(d.dim_time) :
                  /\ Some(d.dim_time[n].time_key) = f.time_key
                  /\ ~IsNull(d.dim_time[n].date_value)}}

\* the counts of validate_business_rules; a comparison with NULL selects no
\* row; amounts are whole numbers, so a difference above 0.01 is any
\* difference; total_sales_amount and total_returns_amount are not modelled
validate_business_rules(d, current_date) ==
    LET facts == d.fact_sales
        count(S) == Cardinality(S)
        rows == 1..Len(facts)
    IN  [calculation_errors |->
            count({k \in rows :
                /\ ~IsNull(facts[k].total_amount)
                /\ ~IsNull(Times(facts[k].quantity, facts[k].unit_price))
                /\ facts[k].total_amount
                     # Times(facts[k].quantity, facts[k].unit_price)}),
         negative_quantities_non_returns |->
            count({k \in rows :
                /\ ~IsNull(facts[k].quantity)
                /\ Val(facts[k].quantity) < 0
                /\ ~facts[k].is_return}),
         zero_unit_price |->
            count({k \in rows :
                ~IsNull(facts[k].unit_price) /\ Val(facts[k].unit_price) <= 0}),
         extreme_quantities |->
            count({k \in rows :
                /\ ~IsNull(facts[k].quantity)
                /\ (Val(facts[k].quantity) > 10000
                      \/ Val(facts[k].quantity) < -10000)}),
         future_dates |->
            count({k \in rows :
                \E day \in fact_dates(d, facts[k]) : day > current_date})]

\* run_data_quality_checks: the overall status from the integrity issues and
\* the business issues
data_quality_status(integrity_results, business_results) ==
    LET integrity_issues ==
            integrity_results.orphaned_products
              + integrity_results.orphaned_customers
              + integrity_results.orphaned_times
              + integrity_results.orphaned_countries
        business_issues ==
            business_results.calculation_errors
              + business_results.negative_quantities_non_returns
              + business_results.future_dates
    IN  IF integrity_issues > 0 \/ business_issues > 0 THEN "FAIL" ELSE "PASS"

\* the report run_data_quality_checks returns; data_summary, top_metrics and
\* validation_timestamp are not modelled
run_data_quality_checks(d, current_date) ==
    LET integrity_results == validate_referential_integrity(d)
        business_results == validate_business_rules(d, current_date)
    IN  [referential_integrity |-> integrity_results,
         business_rules |-> business_results,
         overall_status |-> data_quality_status(integrity_results, business_results)]

\* the query of the business_logic rule of DataQualityChecker over the
\* warehouse; avg_transaction_value is not modelled
business_logic_query(d) ==
    LET facts == d.fact_sales
        rows == 1..Len(facts)
    IN  [total_sales |-> Len(facts),
         calculation_errors |->
            validate_business_rules(d, 0).calculation_errors,
         negative_non_returns |->
            Cardinality({k \in rows :
                /\ ~IsNull(facts[k].total_amount)
                /\ Val(facts[k].total_amount) < 0
                /\ ~facts[k].is_return})]

(***************************************************************************)
(* DataQualityMonitor (quality_monitoring.py): the daily sales range and   *)
(* the missing customer rate.  A rate is kept in hundredths of a percent   *)
(* (the query rounds it to 2 decimals), a score of the missing customer    *)
(* check in tenths of a point, a quartile in quarters and a bound of the   *)
(* sales range in eighths, so that every value is a whole number.          *)
(***************************************************************************)
\* longest date series handed to the monitor
MaxDays == 4

RECURSIVE sort_dates(_)
\* ORDER BY t.date_value over a set of timestamps
sort_dates(S) ==
    IF S = {} THEN <<>>
    ELSE LET least == CHOOSE x \in S : \A y \in S : ts_le(x, y)
         IN  <<least>> \o sort_dates(S \ {least})

RECURSIVE sum_cells(_)
\* SUM over the cells of a sequence: NULLs are skipped, NULL when no cell has
\* a value
sum_cells(cells) ==
    IF Len(cells) = 0 THEN Null
    ELSE IF Len(cells) = 1 THEN cells[1]
    ELSE LET mid == Len(cells) \div 2
             first == sum_cells(SubSeq(cells, 1, mid))
             rest == sum_cells(SubSeq(cells, mid + 1, Len(cells)))
         IN  IF IsNull(first) THEN rest
             ELSE IF IsNull(rest) THEN first
             ELSE Some(Val(first) + Val(rest))

\* fact_sales f JOIN dim_time t ON f.time_key = t.time_key GROUP BY
\* t.date_value: the dates joined by a fact row, ascending, and the fact rows
\* of a date in table order
joined_dates(d) ==
    sort_dates({Val(d.dim_time[j].date_value) :
        j \in {n \in 1..Len(d.dim_time) :
                  \E k \in 1..Len(d.fact_sales) :
                      d.fact_sales[k].time_key = Some(d.dim_time[n].time_key)}})

facts_of_date(d, date) ==
    Pick(d.fact_sales,
         {k \in 1..Len(d.fact_sales) :
             \E j \in 1..Len(d.dim_time) :
                 /\ d.fact_sales[k].time_key = Some(d.dim_time[j].time_key)
                 /\ d.dim_time[j].date_value = Some(date)})

\* the query of check_daily_sales_range; the calendar columns,
\* unique_customers, daily_returns and return_transactions are not modelled
daily_sales_query(d) ==
    LET dates == joined_dates(d)
    IN  [n \in 1..Len(dates) |->
            LET facts == facts_of_date(d, dates[n])
            IN  [date_value |-> Some(dates[n]),
                 daily_sales |->
                    sum_cells([k \in 1..Len(facts) |->
                        IF facts[k].is_return THEN Some(0)
                        ELSE facts[k].total_amount]),
                 total_transactions |-> Len(facts)]]

\* the k-th smallest value of a sequence of numbers
kth_smallest(s, k) ==
    CHOOSE v \in Range(s) :
        /\ Cardinality({j \in 1..Len(s) : s[j] < v}) < k
        /\ k <= Cardinality({j \in 1..Len(s) : s[j] <= v})

\* 4 * Series.quantile(p / 4) of a non-empty sequence of numbers, with the
\* linear interpolation pandas defaults to: position (n - 1) * p / 4 among the
\* sorted values, interpolated between its two neighbours
quantile(s, p) ==
    LET position == (Len(s) - 1) * p
        below == position \div 4 + 1
        part == position % 4
    IN  IF part = 0 THEN 4 * kth_smallest(s, below)
        ELSE 4 * kth_smallest(s, below)
               + part * (kth_smallest(s, below + 1) - kth_smallest(s, below))

\* 8 * lower_bound and 8 * upper_bound of a column; Series.quantile skips the
\* NaN cells and returns NaN (Null here) for a column without a value
iqr_bounds(col) ==
    LET present == Pick(col, {k \in 1..Len(col) : ~IsNull(col[k])})
        s == [k \in 1..Len(present) |-> Val(present[k])]
    IN  IF Len(s) = 0 THEN Null
        ELSE LET q25 == quantile(s, 1)
                 q75 == quantile(s, 3)
                 iqr == q75 - q25
             IN  Some([lower_bound |-> 2 * q25 - 3 * iqr,
                       upper_bound |-> 2 * q75 + 3 * iqr])

\* daily_sales < lower_bound and daily_sales > upper_bound; a comparison with
\* NaN is False
below_lower(x, bounds) ==
    ~IsNull(x) /\ ~IsNull(bounds) /\ 8 * Val(x) < Val(bounds).lower_bound

above_upper(x, bounds) ==
    ~IsNull(x) /\ ~IsNull(bounds) /\ 8 * Val(x) > Val(bounds).upper_bound

\* variant: a day on a bound is an outlier
outlier_type_inclusive(x, bounds) ==
    IF ~IsNull(x) /\ ~IsNull(bounds) /\ 8 * Val(x) <= Val(bounds).lower_bound
    THEN "Low"
    ELSE IF ~IsNull(x) /\ ~IsNull(bounds) /\ 8 * Val(x) >= Val(bounds).upper_bound
    THEN "High"
    ELSE "Normal"

outlier_type(x, bounds) ==
    IF below_lower(x, bounds) THEN "Low"
    ELSE IF above_upper(x, bounds) THEN "High"
    ELSE "Normal"

\* check_daily_sales_range on the dataframe its query returned (at least one
\* date); mean_sales, std_sales and z_score are not modelled
check_daily_sales_range(df) ==
    LET bounds == iqr_bounds(Column(df, "daily_sales"))
    IN  [k \in 1..Len(df) |->
            LET is_outlier == below_lower(df[k].daily_sales, bounds)
                                \/ above_upper(df[k].daily_sales, bounds)
            IN  [is_outlier |-> is_outlier,
                 outlier_type |-> outlier_type(df[k].daily_sales, bounds),
                 quality_score |-> IF is_outlier THEN 85 ELSE 100] @@ df[k]]

\* ROUND(num * 100.0 / den, 2) of PostgreSQL in hundredths, for num >= 0 and
\* den > 0: to nearest, a tie away from zero
round_half_up(num, den) == (2 * num * 10000 + den) \div (2 * den)

\* the rows of a query counting, per date, the fact rows and those with a
\* value in `column`
key_rate_query(d, column) ==
    LET dates == joined_dates(d)
    IN  [n \in 1..Len(dates) |->
            LET facts == facts_of_date(d, dates[n])
                total == Len(facts)
                with_key == Cardinality({k \in 1..total : ~IsNull(facts[k][column])})
            IN  [date_value |-> Some(dates[n]),
                 total_transactions |-> total,
                 transactions_with_customer |-> with_key,
                 missing_customers |-> total - with_key,
                 missing_customer_rate |-> round_half_up(total - with_key, total)]]

\* variant: the query counts the country keys
missing_country_query(d) == key_rate_query(d, "country_key")

\* the query of check_missing_customer_rate; year and month are not modelled
missing_customer_query(d) == key_rate_query(d, "customer_key")

\* threshold = 5.0, in percent
missing_customer_threshold == 5

\* variant: a rate on the threshold is a warning
quality_status_strict(x) ==
    IF x < 100 * missing_customer_threshold THEN "Good"
    ELSE IF x < 100 * missing_customer_threshold * 2 THEN "Warning"
    ELSE "Critical"

\* the lambda of quality_status, x in hundredths of a percent
quality_status(x) ==
    IF x <= 100 * missing_customer_threshold THEN "Good"
    ELSE IF x <= 100 * missing_customer_threshold * 2 THEN "Warning"
    ELSE "Critical"

\* the lambda of quality_score in tenths of a point, x in hundredths of a
\* percent: (x - threshold) * 10 points are x - 100 * threshold tenths
quality_score(x) ==
    IF x <= 100 * missing_customer_threshold THEN 1000
    ELSE LET decayed == 1000 - (x - 100 * missing_customer_threshold)
         IN  IF decayed > 500 THEN decayed ELSE 500

check_missing_customer_rate(df) ==
    [k \in 1..Len(df) |->
        [quality_status |-> quality_status(df[k].missing_customer_rate),
         quality_score |-> quality_score(df[k].missing_customer_rate)] @@ df[k]]

(***************************************************************************)
(* The monitor checks applied to warehouses of a few dates                 *)
(***************************************************************************)
\* longest date series handed to check_missing_customer_rate
MaxRateDays == 2

\* a fact row of the date with time_key k
MonitorFact(k, cell) ==
    [invoice_no |-> Some(<<"5">>), product_key |-> Some(1),
     customer_key |-> cell.customer_key, time_key |-> Some(k),
     country_key |-> Some(1), quantity |-> Some(1),
     unit_price |-> cell.amount, total_amount |-> cell.amount,
     is_return |-> cell.is_return, src |-> 0]

Sale(amount) == [amount |-> amount, customer_key |-> Some(1), is_return |-> FALSE]

\* the facts of a date of the sales checks: one sale, a sale without an
\* amount, a sale and a return
SalesDays ==
    {<<Sale(Some(10))>>, <<Sale(Some(12))>>, <<Sale(Some(100))>>, <<Sale(Null)>>,
     <<Sale(Some(10)), [Sale(Some(-100)) EXCEPT !.is_return = TRUE]>>}

\* one sale a day of 10, 12, 11, 13, 9 and 100
ExampleSeries == <<10, 12, 11, 13, 9, 100>>

ExampleDays == [k \in 1..Len(ExampleSeries) |-> <<Sale(Some(ExampleSeries[k]))>>]

\* the facts of a date with `total` transactions of which the first
\* `with_customer` have a customer key
CustomerDay(total, with_customer) ==
    [j \in 1..total |->
        [Sale(Some(1)) EXCEPT
            !.customer_key = IF j <= with_customer THEN Some(1) ELSE Null]]

CustomerDays ==
    {CustomerDay(c[1], c[2]) :
        c \in {<<100, 100>>, <<100, 95>>, <<100, 94>>, <<100, 90>>, <<100, 89>>,
               <<40, 37>>, <<32, 31>>, <<3, 2>>, <<1, 0>>}}

RECURSIVE FactsOfDays(_, _)
\* the fact rows of the dates k, k + 1, ... of a series, date after date
FactsOfDays(days, k) ==
    IF k > Len(days) THEN <<>>
    ELSE [j \in 1..Len(days[k]) |-> MonitorFact(k, days[k][j])]
           \o FactsOfDays(days, k + 1)

\* the warehouse holding the facts of a series of dates
Warehouse(days) ==
    [EmptyDb EXCEPT
        !.dim_time = [k \in 1..Len(days) |->
                         [time_key |-> k, date_value |-> Some(<<k, 0>>)]],
        !.fact_sales = FactsOfDays(days, 1)]

\* a call of one check on a warehouse of its family
IsMonitorCall(fn, d) ==
    \/ /\ fn = "check_daily_sales_range"
       /\ \/ \E n \in 1..MaxDays : \E f \in [1..n -> SalesDays] : d = Warehouse(f)
          \/ d = Warehouse(ExampleDays)
    \/ /\ fn = "check_missing_customer_rate"
       /\ \E n \in 1..MaxRateDays : \E f \in [1..n -> CustomerDays] :
             d = Warehouse(f)

InitMonitor ==
    /\ source = [columns |-> FullHeader, rows |-> <<>>]
    /\ now = 0
    /\ df_clean = <<>>
    /\ stats = <<>>
    /\ reclean = Null
    /\ \E fn \in {"check_daily_sales_range", "check_missing_customer_rate"} :
          /\ pc = fn
          /\ IsMonitorCall(fn, db)
    /\ i = 0
    /\ err = NoErr
    /\ df_staging = <<>>
    /\ dimension_keys = NoKeys
    /\ out = NoOut
    /\ table_name = ""
    /\ attempt = 1
    /\ log = <<>>
    /\ history = <<>>
    /\ report = NoReport
    /\ category_results = <<>>
    /\ monitoring = Null
    /\ dag = NoDag
    /\ today = 0
    /\ other = Null
    /\ max_active_runs = 1

\* the dataframe a check returned, with the name of the check
Checked(fn, df) == Some([check |-> fn, df |-> df])

CheckDailySalesRange ==
    /\ pc = "check_daily_sales_range"
    /\ monitoring' = Checked(pc, check_daily_sales_range(daily_sales_query(db)))
    /\ pc' = "returned"
    /\ UNCHANGED <<extract_vars, xform_vars, run_vars, dq_vars,
                   dag, today, other, max_active_runs>>

CheckMissingCustomerRate ==
    /\ pc = "check_missing_customer_rate"
    /\ monitoring' =
          Checked(pc, check_missing_customer_rate(missing_customer_query(db)))
    /\ pc' = "returned"
    /\ UNCHANGED <<extract_vars, xform_vars, run_vars, dq_vars,
                   dag, today, other, max_active_runs>>

NextMonitor ==
    \/ CheckDailySalesRange
    \/ CheckMissingCustomerRate

SpecMonitor == InitMonitor /\ [][NextMonitor]_vars

(***************************************************************************)
(* The DAG run from validate_quality on (dags/retail_etl_dag.py): the      *)
(* task instances, their tries and the tasks downstream of them            *)
(***************************************************************************)
\* the last day the clock of the warehouse server reaches
MaxToday == 1

\* cleanup_staging_data(keep_days=7)
keep_days == 7

\* the position of a task in the chain of dependencies
TaskIndex(t) == CHOOSE k \in 1..Len(Tasks) : Tasks[k] = t

\* the task a task is directly downstream of
Upstream(t) == Tasks[TaskIndex(t) - 1]

\* the tasks downstream of validate_quality
Downstream == {Tasks[k] : k \in (TaskIndex("validate_quality") + 1)..Len(Tasks)}

\* the state of a task instance whose try raised: up for retry while tries
\* remain (retries = 1), failed after the last one
after_raise(try_number) == IF try_number <= retries THEN "up_for_retry" ELSE "failed"

\* a try of a task may start: its upstream task succeeded and it has not run
\* or waits for its retry
Runnable(t) ==
    /\ dag.state[Upstream(t)] = "success"
    /\ dag.state[t] \in {"none", "up_for_retry"}

\* variant: the report is pushed and the task returns whatever its status
ValidateDataQualityReturns ==
    /\ Runnable("validate_quality")
    /\ LET dq_report == run_data_quality_checks(db, today)
       IN  dag' = [dag EXCEPT
                !.dq_report = Some(dq_report),
                !.returned = Append(@, dq_report.overall_status),
                !.warehouse = IF IsNull(@) THEN Some(db) ELSE @,
                !.state["validate_quality"] = "success"]
    /\ UNCHANGED <<source, now, df_clean, stats, reclean, db, pc, i, err,
                   xform_vars, run_vars, dq_vars,
                   monitoring, today, other, max_active_runs>>

\* one try of validate_data_quality: run_data_quality_checks on the
\* warehouse as it is, the report pushed to XCom, an exception when its
\* overall_status is not PASS
ValidateDataQuality ==
    /\ Runnable("validate_quality")
    /\ LET dq_report == run_data_quality_checks(db, today)
           passed == dq_report.overall_status = "PASS"
           try_number == dag.try_number["validate_quality"]
       IN  /\ dag' = [dag EXCEPT
                !.dq_report = Some(dq_report),
                !.returned = Append(@, dq_report.overall_status),
                !.warehouse = IF IsNull(@) THEN Some(db) ELSE @,
                !.state["validate_quality"] =
                    IF passed THEN "success" ELSE after_raise(try_number),
                !.try_number["validate_quality"] =
                    IF passed THEN @ ELSE @ + 1]
           /\ err' = IF passed THEN NoErr ELSE Raise("Exception")
    /\ UNCHANGED <<source, now, df_clean, stats, reclean, db, pc, i,
                   xform_vars, run_vars, dq_vars,
                   monitoring, today, other, max_active_runs>>

\* a try of validate_data_quality in which a query of the loader raises:
\* nothing is returned or pushed
ValidateDataQualityFails ==
    /\ Runnable("validate_quality")
    /\ dag' = [dag EXCEPT
            !.warehouse = IF IsNull(@) THEN Some(db) ELSE @,
            !.state["validate_quality"] =
                after_raise(dag.try_number["validate_quality"]),
            !.try_number["validate_quality"] = @ + 1]
    /\ err' = Raise("DatabaseError")
    /\ UNCHANGED <<source, now, df_clean, stats, reclean, db, pc, i,
                   xform_vars, run_vars, dq_vars,
                   monitoring, today, other, max_active_runs>>

\* run_dq_checks, run_quality_monitoring, notify_success and end_pipeline:
\* they read the warehouse and write none of its tables; they are taken to
\* succeed
RunTask ==
    \E t \in Downstream \ {"cleanup_staging"} :
        /\ Runnable(t)
        /\ dag' = [dag EXCEPT !.state[t] = "success"]
        /\ UNCHANGED <<source, now, df_clean, stats, reclean, db, pc, i, err,
                       xform_vars, run_vars, dq_vars,
                       monitoring, today, other, max_active_runs>>

\* cleanup_old_data: DELETE FROM raw_retail_data WHERE created_at < NOW() -
\* INTERVAL '7 DAY'; the task returns normally even when the delete raises
CleanupStaging ==
    /\ Runnable("cleanup_staging")
    /\ \/ db' = [db EXCEPT !.raw_retail_data =
                    Pick(@, {k \in 1..Len(@) : ~(@[k].created_at < today - keep_days)})]
       \/ UNCHANGED db
    /\ dag' = [dag EXCEPT !.state["cleanup_staging"] = "success"]
    /\ UNCHANGED <<source, now, df_clean, stats, reclean, pc, i, err,
                   xform_vars, run_vars, dq_vars,
                   monitoring, today, other, max_active_runs>>

\* the scheduler, trigger rule all_success: a task whose upstream task failed
\* or was not run is marked upstream_failed and never runs
UpstreamFailed ==
    \E t \in Downstream :
        /\ dag.state[t] = "none"
        /\ dag.state[Upstream(t)] \in {"failed", "upstream_failed"}
        /\ dag' = [dag EXCEPT !.state[t] = "upstream_failed"]
        /\ UNCHANGED <<source, now, df_clean, stats, reclean, db, pc, i, err,
                       xform_vars, run_vars, dq_vars,
                       monitoring, today, other, max_active_runs>>

\* midnight passes on the warehouse server (between two tasks, or during the
\* retry_delay of 2 minutes)
ClockTick ==
    /\ today < MaxToday
    /\ today' = today + 1
    /\ UNCHANGED <<source, now, df_clean, stats, reclean, db, pc, i, err,
                   xform_vars, run_vars, dq_vars,
                   monitoring, dag, other, max_active_runs>>

\* the fact row of OldDb with its measures, its country key and its return
\* flag varied
ValidatedFacts ==
    {[OldDb.fact_sales[1] EXCEPT !.country_key = c, !.quantity = Some(q[1]),
                                 !.is_return = q[2], !.total_amount = Some(a)] :
        c \in {Some(1), Null},
        q \in {<<1, FALSE>>, <<-1, FALSE>>, <<-1, TRUE>>},
        a \in {5, -5}}

\* staging rows loaded 8 days ago and today
StagedRows ==
    <<[created_at |-> -8] @@ OldStagingRow, [created_at |-> 0] @@ OldStagingRow>>

\* the warehouses validate_quality runs on: the empty one, and the one of an
\* earlier run with a varied fact row dated today or tomorrow
IsValidatedDb(d) ==
    \/ d = EmptyDb
    \/ \E f \in ValidatedFacts : \E day \in {0, 1} :
          d = [OldDb EXCEPT !.raw_retail_data = StagedRows,
                            !.dim_time[1].date_value = Some(<<day, 0>>),
                            !.fact_sales = <<f>>]

\* the DAG run after transform_data succeeded
InitDag ==
    /\ source = [columns |-> FullHeader, rows |-> <<>>]
    /\ now = 0
    /\ df_clean = <<>>
    /\ stats = <<>>
    /\ reclean = Null
    /\ IsValidatedDb(db)
    /\ pc = "dag_run"
    /\ i = 0
    /\ err = NoErr
    /\ df_staging = <<>>
    /\ dimension_keys = NoKeys
    /\ out = NoOut
    /\ table_name = ""
    /\ attempt = 1
    /\ log = <<>>
    /\ history = <<>>
    /\ report = NoReport
    /\ category_results = <<>>
    /\ monitoring = Null
    /\ dag = [NoDag EXCEPT
                !.state = [t \in Range(Tasks) |->
                    IF TaskIndex(t) < TaskIndex("validate_quality")
                    THEN "success" ELSE "none"]]
    /\ today = 0
    /\ other = Null
    /\ max_active_runs = 1

NextDag ==
    \/ ValidateDataQuality
    \/ ValidateDataQualityFails
    \/ RunTask
    \/ CleanupStaging
    \/ UpstreamFailed
    \/ ClockTick

SpecDag == InitDag /\ [][NextDag]_vars

(***************************************************************************)
(* Two DAG runs of the transform task on one warehouse                     *)
(* (retail_etl_dag.py: the DAG object and its max_active_runs)             *)
(***************************************************************************)
\* what a transform task holds of its own: its position and its locals. The
\* run on the processor keeps them in pc, i, err, df_staging, dimension_keys,
\* out, table_name, attempt and log; `other` holds those of the other run
Context ==
    [pc |-> pc, i |-> i, err |-> err, df_staging |-> df_staging,
     dimension_keys |-> dimension_keys, out |-> out, table_name |-> table_name,
     attempt |-> attempt, log |-> log]

\* a DAG run the scheduler has created and not yet started
Queued ==
    [pc |-> "queued", i |-> 0, err |-> NoErr, df_staging |-> <<>>,
     dimension_keys |-> NoKeys, out |-> NoOut, table_name |-> "",
     attempt |-> 1, log |-> <<>>]

\* a DAG run counts as active from its start to its success or failure
Active(p) == p \notin {"queued", "transformed", "failed"}

ActiveRuns ==
    (IF Active(pc) THEN 1 ELSE 0)
        + (IF ~IsNull(other) /\ Active(Val(other).pc) THEN 1 ELSE 0)

\* variant: the scheduler starts a queued run whatever the number of active runs
AdmitUnlimited ==
    /\ ~IsNull(other)
    /\ Val(other).pc = "queued"
    /\ other' = Some([Val(other) EXCEPT !.pc = "extracted"])
    /\ UNCHANGED <<extract_vars, pc, xform_vars, attempt, log, history, dq_vars,
                   monitoring, dag, today, max_active_runs>>

\* the scheduler starts the queued run while fewer than max_active_runs runs
\* of the DAG are active
Admit ==
    /\ ~IsNull(other)
    /\ Val(other).pc = "queued"
    /\ ActiveRuns < max_active_runs
    /\ other' = Some([Val(other) EXCEPT !.pc = "extracted"])
    /\ UNCHANGED <<extract_vars, pc, xform_vars, attempt, log, history, dq_vars,
                   monitoring, dag, today, max_active_runs>>

\* the two runs are separate processes: between two statements of one the
\* other may execute its next statement
Switch ==
    /\ ~IsNull(other)
    /\ Active(Val(other).pc)
    /\ other' = Some(Context)
    /\ pc' = Val(other).pc
    /\ i' = Val(other).i
    /\ err' = Val(other).err
    /\ df_staging' = Val(other).df_staging
    /\ dimension_keys' = Val(other).dimension_keys
    /\ out' = Val(other).out
    /\ table_name' = Val(other).table_name
    /\ attempt' = Val(other).attempt
    /\ log' = Val(other).log
    /\ UNCHANGED <<source, now, df_clean, stats, reclean, db, history, dq_vars,
                   monitoring, dag, today, max_active_runs>>

\* batch_df.to_sql of a batch holding a foreign key that names no row: the
\* INSERT raises IntegrityError, which leaves run_full_transformation
ForeignKeyViolation ==
    \/ /\ pc = "dimension_batch"
       /\ violates_foreign_key(db, table_name, batch(dimension_df(table_name), i))
       /\ Raises(<<Step("load_dimension", table_name, "raise")>>)
    \/ /\ pc = "fact_batch"
       /\ violates_foreign_key(db, "fact_sales", batch(Val(out.fact_sales), i))
       /\ Raises(<<Step("load_fact", "fact_sales", "raise")>>)

\* rows of the staging table the two runs read
MaxConcurrentRows == 1

\* staging rows of two days, two countries, two products and two customers
ConcurrentRows ==
    {PlainStagingRow,
     [PlainStagingRow EXCEPT !.stock_code = Some("B"), !.country = Some("France"),
                             !.customer_id = Some(13047),
                             !.invoice_date = Some(<<2, 9>>)]}

\* the first run is at the start of its transform task, the second is queued;
\* the staging table is as load_to_staging left it and the other tables are
\* empty; max_active_runs is the DAG's 1 or, for comparison, 2
InitConcurrent ==
    /\ source = [columns |-> FullHeader, rows |-> <<>>]
    /\ now = 0
    /\ df_clean = <<>>
    /\ stats = <<>>
    /\ reclean = Null
    /\ \E n \in 1..MaxConcurrentRows : \E f \in [1..n -> ConcurrentRows] :
          /\ \A a, b \in 1..n : a # b => f[a] # f[b]
          /\ db = [EmptyDb EXCEPT !.raw_retail_data = Frame(f)]
    /\ pc = "extracted"
    /\ i = 0
    /\ err = NoErr
    /\ df_staging = <<>>
    /\ dimension_keys = NoKeys
    /\ out = NoOut
    /\ table_name = ""
    /\ attempt = 1
    /\ log = <<>>
    /\ history = <<>>
    /\ report = NoReport
    /\ category_results = <<>>
    /\ monitoring = Null
    /\ dag = NoDag
    /\ today = 0
    /\ other = Some(Queued)
    /\ max_active_runs \in {1, 2}

NextConcurrent ==
    \/ Admit
    \/ Switch
    \/ LoadStagingData
    \/ DimTruncate
    \/ DimBatch
    \/ DimReadKeys
    \/ FactEmpty
    \/ FactTruncate
    \/ FactBatch
    \/ ForeignKeyViolation

SpecConcurrent == InitConcurrent /\ [][NextConcurrent]_vars

(***************************************************************************)
(* Properties of the staging cleaner                                       *)
(***************************************************************************)
\* extract_from_excel has returned a cleaned dataframe
Cleaned == stats # <<>>

KeysPresent(r) ==
    ~IsNull(r.CustomerID) /\ ~IsNull(r.StockCode) /\ ~IsNull(r.InvoiceDate)

SameTriple(a, b) ==
    /\ a.InvoiceNo = b.InvoiceNo
    /\ a.StockCode = b.StockCode
    /\ a.InvoiceDate = b.InvoiceDate

\* sheet rows the claims expect the cleaner to return: no null key, and no
\* earlier row without null keys carries the same triple
Retained(rows) ==
    {k \in 1..Len(rows) :
        /\ KeysPresent(rows[k])
        /\ \A j \in 1..(k - 1) : KeysPresent(rows[j]) => ~SameTriple(rows[j], rows[k])}

Indexes(df) == {df[k].idx : k \in 1..Len(df)}

\* C3: the cleaned dataframe holds no two rows with the same (InvoiceNo,
\* StockCode, InvoiceDate); the row kept for a triple is its first occurrence
\* among the rows without null keys; duplicates_removed counts the rows the
\* deduplication removed.
C3_CleanerDedup ==
    Cleaned =>
        /\ \A a, b \in 1..Len(df_clean) :
              a # b => ~SameTriple(df_clean[a], df_clean[b])
        /\ Indexes(df_clean) = Retained(source.rows)
        /\ stats.duplicates_removed =
              Cardinality({k \in 1..Len(source.rows) : KeysPresent(source.rows[k])})
                  - Len(df_clean)

C3_Witness ==
    /\ Cleaned
    /\ stats.duplicates_removed = 1
    /\ stats.null_drops = 0
    /\ Indexes(df_clean) = {1}

sans_timestamp(r) == [r EXCEPT !.processed_at = 0]

\* C4: the cleaner applied to the dataframe it returned drops no row:
\* null_drops = 0, duplicates_removed = 0, and the rows are the same rows
\* (all columns but the processing timestamp).
C4_CleanerIdempotent ==
    ~IsNull(reclean) =>
        LET second == Val(reclean)
        IN  /\ second.stats.null_drops = 0
            /\ second.stats.duplicates_removed = 0
            /\ Len(second.df) = Len(df_clean)
            /\ \A k \in 1..Len(df_clean) :
                  sans_timestamp(second.df[k]) = sans_timestamp(df_clean[k])

C4_Witness ==
    /\ ~IsNull(reclean)
    /\ stats.duplicates_removed = 1
    /\ Len(Val(reclean).df) = 1

HasColumn(header, c) ==
    \/ c \in header
    \/ c = "InvoiceNo" /\ "Invoice" \in header
    \/ c = "CustomerID" /\ "Customer ID" \in header

RequiredAbsent(header) ==
    SelectSeq(<<"InvoiceNo", "StockCode", "InvoiceDate", "CustomerID">>,
              LAMBDA c : ~HasColumn(header, c))

\* C6: on a sheet that lacks a required column the cleaner raises a
\* validation error naming the missing columns, and no statement of that
\* run changes the staging table.
C6_MissingColumnsAbort ==
    [][RequiredAbsent(source.columns) # <<>> =>
          /\ db' = db
          /\ pc' \in {"extract", "failed"}
          /\ ExtractFromExcel =>
                err' = [type |-> "ValueError",
                        detail |-> RequiredAbsent(source.columns)]]_vars

C6_Witness ==
    /\ pc = "failed"
    /\ err = [type |-> "ValueError", detail |-> <<"InvoiceNo", "StockCode">>]
    /\ db.raw_retail_data = <<OldStagingRow>>

\* C7: the flags are set as defined and remove nothing: price_flag is true
\* on a unit price that is missing or <= 0, quantity_flag on a quantity over
\* 1000, and the rows returned are the sheet minus the null-dropped rows
\* minus the duplicates, whatever the flags.
C7_FlagsDropNothing ==
    Cleaned =>
        /\ \A k \in 1..Len(df_clean) :
              LET r == df_clean[k]
              IN  /\ r.price_flag = (IsNull(r.UnitPrice) \/ Val(r.UnitPrice) <= 0)
                  /\ r.quantity_flag = (~IsNull(r.Quantity) /\ Val(r.Quantity) > 1000)
                  /\ r.UnitPrice = source.rows[r.idx].UnitPrice
                  /\ r.Quantity = source.rows[r.idx].Quantity
        /\ Indexes(df_clean) = Retained(source.rows)
        /\ Len(df_clean) =
              Len(source.rows) - stats.null_drops - stats.duplicates_removed

C7_Witness ==
    /\ Cleaned
    /\ Len(df_clean) = 2
    /\ df_clean[1].price_flag /\ IsNull(df_clean[1].UnitPrice)
    /\ df_clean[2].quantity_flag /\ df_clean[2].price_flag
    /\ ~IsNull(df_clean[2].UnitPrice)


(***************************************************************************)
(* Properties of the fact and dimension builders                           *)
(***************************************************************************)
FactOut == Val(out.fact_sales)

InMapping(x, mapping) == ~IsNull(x) /\ Val(x) \in DOMAIN mapping

\* the natural keys of staging row r that its mapping does not hold
Unresolved(r) ==
    {d \in {"products", "customers", "time", "countries"} :
        ~InMapping(CASE d = "products" -> r.stock_code
                     [] d = "customers" -> r.customer_id
                     [] d = "time" -> date_only(r.invoice_date)
                     [] d = "countries" -> r.country,
                   dimension_keys[d])}

\* C1: every row returned by transform_fact_sales has a non-null product_key,
\* customer_key, time_key and country_key, and a staging row with a natural
\* key absent from its mapping yields no fact row.
C1_AllFourKeysResolved ==
    ~IsNull(out.fact_sales) =>
        /\ \A k \in 1..Len(FactOut) :
              /\ ~IsNull(FactOut[k].product_key)
              /\ ~IsNull(FactOut[k].customer_key)
              /\ ~IsNull(FactOut[k].time_key)
              /\ ~IsNull(FactOut[k].country_key)
        /\ \A k \in 1..Len(df_staging) :
              Unresolved(df_staging[k]) # {} =>
                  \A j \in 1..Len(FactOut) : FactOut[j].src # k

\* the (invoice_no, product_key, time_key) a staging row resolves to
FactTriple(r) ==
    <<r.invoice, dimension_keys.products[Val(r.stock_code)],
      dimension_keys.time[Val(r.invoice_date)[1]]>>

\* staging rows that pass the key cleanup of transform_fact_sales
KeyResolved ==
    {k \in 1..Len(df_staging) :
        Unresolved(df_staging[k]) \cap {"products", "customers", "time"} = {}}

\* C2: the fact dataframe holds no two rows with the same (invoice_no,
\* product_key, time_key), and the row kept for a triple is the first, in
\* input order, of the key-resolved rows that carry it.
C2_FactDedupKeepsFirst ==
    ~IsNull(out.fact_sales) =>
        /\ \A a, b \in 1..Len(FactOut) :
              a # b =>
                  <<FactOut[a].invoice_no, FactOut[a].product_key, FactOut[a].time_key>>
                      # <<FactOut[b].invoice_no, FactOut[b].product_key, FactOut[b].time_key>>
        /\ {FactOut[k].src : k \in 1..Len(FactOut)} =
              {k \in KeyResolved :
                  \A j \in KeyResolved :
                      j < k => FactTriple(df_staging[j]) # FactTriple(df_staging[k])}

C2_Witness ==
    /\ ~IsNull(out.fact_sales)
    /\ Len(df_staging) = 2
    /\ KeyResolved = {1, 2}
    /\ df_staging[1].invoice_date # df_staging[2].invoice_date
    /\ Len(FactOut) = 1
    /\ FactOut[1].src = 1

ProductOut == Val(out.dim_product)

\* how often description d is observed for stock code c
Observed(c, d) ==
    Cardinality({k \in 1..Len(df_staging) :
                    df_staging[k].stock_code = c /\ df_staging[k].description = d})

\* the most frequent non-null descriptions of stock code c
MostFrequent(c) ==
    {d \in {df_staging[k].description : k \in 1..Len(df_staging)} :
        /\ ~IsNull(d)
        /\ Observed(c, d) > 0
        /\ \A k \in 1..Len(df_staging) :
              ~IsNull(df_staging[k].description)
                  => Observed(c, d) >= Observed(c, df_staging[k].description)}

FirstSeen(c, d) ==
    CHOOSE k \in 1..Len(df_staging) :
        /\ df_staging[k].stock_code = c /\ df_staging[k].description = d
        /\ \A j \in 1..(k - 1) :
              ~(df_staging[j].stock_code = c /\ df_staging[j].description = d)

OneRowPerStockCode ==
    /\ {ProductOut[k].stock_code : k \in 1..Len(ProductOut)} =
          {df_staging[k].stock_code : k \in 1..Len(df_staging)} \ {Null}
    /\ \A a, b \in 1..Len(ProductOut) :
          a # b => ProductOut[a].stock_code # ProductOut[b].stock_code

\* C9 as stated: one row per distinct stock code, carrying the most frequent
\* non-null description of the code, the first seen in staging order when
\* several are most frequent.
C9_ModeTiesFirstSeen ==
    ~IsNull(out.dim_product) =>
        /\ OneRowPerStockCode
        /\ \A k \in 1..Len(ProductOut) :
              LET c == ProductOut[k].stock_code
                  d == ProductOut[k].description
              IN  MostFrequent(c) # {} =>
                      /\ d \in MostFrequent(c)
                      /\ \A e \in MostFrequent(c) : FirstSeen(c, d) <= FirstSeen(c, e)

\* C9 amended: one row per distinct stock code, carrying the most frequent
\* non-null description of the code, the least in ascending string order
\* when several are most frequent, and null when every description of the
\* code is null.
C9_ModeTiesSortedFirst ==
    ~IsNull(out.dim_product) =>
        /\ OneRowPerStockCode
        /\ \A k \in 1..Len(ProductOut) :
              LET c == ProductOut[k].stock_code
                  d == ProductOut[k].description
              IN  IF MostFrequent(c) = {} THEN IsNull(d)
                  ELSE /\ d \in MostFrequent(c)
                       /\ \A e \in MostFrequent(c) : Rank(Val(d)) <= Rank(Val(e))

C9_Witness ==
    /\ ~IsNull(out.dim_product)
    /\ Len(df_staging) = 3
    /\ Column(df_staging, "stock_code") = <<Some("A"), Some("B"), Some("A")>>
    /\ Column(df_staging, "description") = <<Some("CUP"), Null, Some("BOWL")>>
    /\ ProductOut = <<[stock_code |-> Some("A"), description |-> Some("BOWL")],
                      [stock_code |-> Some("B"), description |-> Null]>>

CustomerOut == Val(out.dim_customer)

\* C10: one row per distinct non-null customer id; its country_key is the
\* country mapping applied to the country of the customer's first staging
\* row, null only when that country is not in the mapping.
C10_CustomerFirstCountry ==
    ~IsNull(out.dim_customer) =>
        /\ {CustomerOut[k].customer_id : k \in 1..Len(CustomerOut)} =
              {df_staging[k].customer_id : k \in 1..Len(df_staging)} \ {Null}
        /\ \A a, b \in 1..Len(CustomerOut) :
              a # b => CustomerOut[a].customer_id # CustomerOut[b].customer_id
        /\ \A k \in 1..Len(CustomerOut) :
              LET first == CHOOSE j \in 1..Len(df_staging) :
                      /\ df_staging[j].customer_id = CustomerOut[k].customer_id
                      /\ \A h \in 1..(j - 1) :
                            df_staging[h].customer_id # CustomerOut[k].customer_id
                  country == df_staging[first].country
              IN  /\ InMapping(country, dimension_keys.countries) =>
                        CustomerOut[k].country_key =
                            Some(dimension_keys.countries[Val(country)])
                  /\ IsNull(CustomerOut[k].country_key) <=>
                        ~InMapping(country, dimension_keys.countries)

C10_Witness ==
    /\ ~IsNull(out.dim_customer)
    /\ Len(df_staging) = 3
    /\ Column(df_staging, "customer_id") = <<Some(17850), Some(13047), Some(17850)>>
    /\ Column(df_staging, "country") = <<Some("France"), Null, Some("UK")>>
    /\ DOMAIN dimension_keys.countries = {"UK"}
    /\ Len(CustomerOut) = 2
    /\ IsNull(CustomerOut[1].country_key)


(***************************************************************************)
(* Properties of the pipeline                                              *)
(***************************************************************************)
\* sheet rows with a null customer id, stock code or invoice date
NullKeyRows == {k \in 1..Len(source.rows) : ~KeysPresent(source.rows[k])}

\* C5: a sheet row with a null customer id (or stock code, or invoice date)
\* is removed by the cleaner and counted in null_drops, and no dim_customer
\* row and no fact_sales row is ever derived from it.
C5_NullKeyRowsNeverLoaded ==
    /\ Cleaned =>
          /\ Indexes(df_clean) \cap NullKeyRows = {}
          /\ stats.null_drops = Cardinality(NullKeyRows)
    /\ \A k \in 1..Len(db.dim_customer) :
          /\ ~IsNull(db.dim_customer[k].customer_id)
          /\ db.dim_customer[k].src \notin NullKeyRows
    /\ \A k \in 1..Len(db.fact_sales) :
          /\ ~IsNull(db.fact_sales[k].customer_key)
          /\ db.fact_sales[k].src \notin NullKeyRows

C5_Witness ==
    /\ pc = "transformed"
    /\ Len(source.rows) = 2
    /\ IsNull(source.rows[1].CustomerID)
    /\ stats.null_drops = 1
    /\ Len(db.dim_customer) = 1 /\ db.dim_customer[1].src = 2
    /\ Len(db.fact_sales) = 1 /\ db.fact_sales[1].src = 2

HasCPrefix(inv) == ~IsNull(inv) /\ Len(Val(inv)) > 0 /\ Head(Val(inv)) = "C"

\* the fact row f carries the measures the cleaner computed for its sheet row
AgreesWithCleaner(f) ==
    \E k \in 1..Len(df_clean) :
        LET c == df_clean[k]
        IN  /\ c.idx = f.src
            /\ f.is_return = c.is_return
            /\ f.total_amount = c.TotalAmount
            /\ f.is_return <=>
                  (HasCPrefix(c.InvoiceNo)
                      \/ (~IsNull(c.Quantity) /\ Val(c.Quantity) < 0))
            /\ f.total_amount =
                  IF IsNull(c.Quantity) \/ IsNull(c.UnitPrice) THEN Null
                  ELSE Some(Val(c.Quantity) * Val(c.UnitPrice))

\* C8: for every row of this run, is_return and total_amount computed by
\* transform_fact_sales equal those the cleaner computed for the row:
\* is_return iff the invoice id starts with "C" or the quantity is negative,
\* total_amount = quantity * unit price.
C8_MeasuresAgreeAcrossLayers ==
    /\ ~IsNull(out.fact_sales) =>
          \A k \in 1..Len(FactOut) : FactOut[k].src # 0 => AgreesWithCleaner(FactOut[k])
    /\ \A k \in 1..Len(db.fact_sales) :
          db.fact_sales[k].src # 0 => AgreesWithCleaner(db.fact_sales[k])

C8_Witness ==
    /\ pc = "transformed"
    /\ Len(db.fact_sales) = 2
    /\ db.fact_sales[1].is_return /\ db.fact_sales[1].quantity = Some(2)
    /\ db.fact_sales[1].total_amount = Some(-4)
    /\ ~db.fact_sales[2].is_return /\ IsNull(db.fact_sales[2].total_amount)

(***************************************************************************)
(* Properties of the dimension and fact loads                              *)
(***************************************************************************)
Dimensions == {"dim_time", "dim_country", "dim_product", "dim_customer"}

\* the log holds the entry e
Logged(e) == \E k \in 1..Len(log) : log[k] = e

\* load_dimension(dimension_df(t), t) has returned in the running call
LoadReturned(t) == Logged(Step("load_dimension", t, "return"))

\* a persisted row without its generated key
WithoutKey(r, t) == [c \in DOMAIN r \ {key_column(t)} |-> r[c]]

NaturalKeys(df, t) == {natural_key(df[k], t) : k \in 1..Len(df)}

\* C11: once load_dimension(df, table) has returned, the table holds exactly
\* the rows of df (none of the rows it held before), and the key mapping it
\* returned has the natural keys of df as its domain, sends the natural key
\* of every persisted row to that row's surrogate key, and sends distinct
\* natural keys to distinct surrogate keys
C11_LoadDimensionReplaces ==
    \A t \in Dimensions :
        LoadReturned(t) =>
            LET df == dimension_df(t)
                table == db[t]
                mapping == dimension_keys[keys_entry(t)]
            IN  /\ [k \in 1..Len(table) |-> WithoutKey(table[k], t)] = df
                /\ DOMAIN mapping = NaturalKeys(df, t)
                /\ \A k \in 1..Len(table) :
                      mapping[natural_key(table[k], t)] = table[k][key_column(t)]
                /\ \A a, b \in DOMAIN mapping : a # b => mapping[a] # mapping[b]

\* the product load returned on a retry, over the rows the failed attempt
\* and the earlier run had left, with two products mapped
C11_Witness ==
    /\ LoadReturned("dim_product")
    /\ attempt = 2
    /\ Len(history[1].db.dim_product) = 1
    /\ Len(db.dim_product) = 2
    /\ dimension_keys.products = ("A" :> 1) @@ ("B" :> 2)

\* the natural keys of the rows of dimension t that carry the surrogate key
\* `key` in warehouse d: none for a null key, one for a resolved key
Referent(d, t, key) ==
    {natural_key(d[t][k], t) :
        k \in {j \in 1..Len(d[t]) : Some(d[t][j][key_column(t)]) = key}}

\* a fact row of warehouse d with each surrogate key replaced by the natural
\* key it stands for
Denormalised(d, f) ==
    [invoice_no |-> f.invoice_no,
     product |-> <<IsNull(f.product_key), Referent(d, "dim_product", f.product_key)>>,
     customer |-> <<IsNull(f.customer_key), Referent(d, "dim_customer", f.customer_key)>>,
     time |-> <<IsNull(f.time_key), Referent(d, "dim_time", f.time_key)>>,
     country |-> <<IsNull(f.country_key), Referent(d, "dim_country", f.country_key)>>,
     quantity |-> f.quantity,
     unit_price |-> f.unit_price,
     total_amount |-> f.total_amount,
     is_return |-> f.is_return]

FactContent(d) == {Denormalised(d, d.fact_sales[k]) : k \in 1..Len(d.fact_sales)}

\* warehouses d and e hold the same content whatever surrogate keys they use
SameContent(d, e) ==
    /\ \A t \in Dimensions :
          /\ Len(d[t]) = Len(e[t])
          /\ NaturalKeys(d[t], t) = NaturalKeys(e[t], t)
    /\ Len(d.fact_sales) = Len(e.fact_sales)
    /\ FactContent(d) = FactContent(e)

\* C12: when run_full_transformation returns twice in succession over the
\* same staging table, every dimension has the same row count and the same
\* natural keys after the second run as after the first, and fact_sales has
\* the same rows up to the renaming of surrogate keys
C12_RerunSameContent ==
    \A n \in 2..Len(history) :
        (history[n - 1].outcome = "returned" /\ history[n].outcome = "returned")
            => SameContent(history[n - 1].db, history[n].db)

\* two runs returned, the second numbered the countries differently, and two
\* facts were loaded each time
C12_Witness ==
    /\ Len(history) = 2
    /\ history[1].outcome = "returned" /\ history[2].outcome = "returned"
    /\ Len(history[2].db.fact_sales) = 2
    /\ Len(history[2].db.dim_country) = 2
    /\ history[1].db.dim_country # history[2].db.dim_country

\* entry a is logged before entry b whenever b is logged
Precedes(a, b) ==
    \A k \in 1..Len(log) : log[k] = b => \E j \in 1..(k - 1) : log[j] = a

\* C13: in every call of run_full_transformation the time, country and
\* product loads have returned, and their key mappings are held, before the
\* customer dimension is built and loaded; the customer load has returned
\* before transform_fact_sales starts; transform_fact_sales has returned
\* before load_fact starts; and nothing is logged after a step has raised
C13_StepsInOrder ==
    /\ \A t \in {"dim_time", "dim_country", "dim_product"} :
          /\ Precedes(Step("load_dimension", t, "return"),
                      Step("transform_customer_dimension", "", "start"))
          /\ Logged(Step("transform_customer_dimension", "", "start"))
                => dimension_keys[keys_entry(t)] = key_mapping(db[t], t)
    /\ Precedes(Step("transform_customer_dimension", "", "return"),
                Step("load_dimension", "dim_customer", "start"))
    /\ Precedes(Step("load_dimension", "dim_customer", "return"),
                Step("transform_fact_sales", "", "start"))
    /\ Precedes(Step("transform_fact_sales", "", "return"),
                Step("load_fact", "fact_sales", "start"))
    /\ \A k \in 1..Len(log) : log[k].at = "raise" => k = Len(log)
    /\ \A k \in 1..Len(log) : \A j \in 1..Len(log) : log[j] = log[k] => j = k

\* load_fact was reached, after every earlier step, and raised at its
\* second batch
C13_Witness ==
    /\ pc = "failed"
    /\ Logged(Step("load_fact", "fact_sales", "raise"))
    /\ Len(db.fact_sales) = 1
    /\ Len(db.dim_customer) = 2

\* the number of to_sql calls load_fact makes for a dataframe of n rows
Batches(n) == (n + batch_size - 1) \div batch_size

\* the rows of batches 1..k of dataframe df
FirstBatches(df, k) == SubSeq(df, 1, Min(k * batch_size, Len(df)))

\* C14: when the truncate of load_fact fails, the call raises and fact_sales
\* (as every table) is as it was when load_fact was called; when batch k
\* fails after a successful truncate, the call raises and fact_sales holds
\* exactly batches 1..k-1 of the new rows; the failed call is recorded as
\* raised, and once it has failed nothing more is written unless the task
\* is started again
C14_LoadFactFailure ==
    [][/\ (pc = "load_fact" /\ pc' = "failed")
            => /\ db' = db
               /\ err' # NoErr
               /\ history'[Len(history')].outcome = "raised"
       /\ (pc = "fact_batch" /\ pc' = "failed")
            => /\ err' # NoErr
               /\ history'[Len(history')].outcome = "raised"
               /\ \E k \in 1..Batches(Len(Val(out.fact_sales))) :
                     /\ i = (k - 1) * batch_size
                     /\ db'.fact_sales = FirstBatches(Val(out.fact_sales), k - 1)
       /\ pc = "failed" => (db' = db /\ pc' \in {"failed", "extracted"})]_vars

\* the second batch of load_fact failed: fact_sales holds the first batch
\* only, and the call raised
C14_Witness ==
    /\ pc = "failed"
    /\ log[Len(log)] = Step("load_fact", "fact_sales", "raise")
    /\ i = batch_size
    /\ Len(Val(out.fact_sales)) > batch_size
    /\ db.fact_sales = FirstBatches(Val(out.fact_sales), 1)

\* the warehouse a call of run_full_transformation leaves when it reads the
\* staging rows as df and no statement fails: each dimension holds its
\* dataframe keyed from 1, fact_sales the facts built with those keys
FailureFree(d, df) ==
    LET time == append_with_keys(<<>>, transform_time_dimension(df), "dim_time")
        country == append_with_keys(<<>>, transform_country_dimension(df), "dim_country")
        product == append_with_keys(<<>>, transform_product_dimension(df), "dim_product")
        countries == key_mapping(country, "dim_country")
        customer == append_with_keys(<<>>,
                        transform_customer_dimension(df, countries), "dim_customer")
        keys == [time |-> key_mapping(time, "dim_time"),
                 countries |-> countries,
                 products |-> key_mapping(product, "dim_product"),
                 customers |-> key_mapping(customer, "dim_customer")]
    IN  [raw_retail_data |-> d.raw_retail_data,
         dim_time |-> time,
         dim_country |-> country,
         dim_product |-> product,
         dim_customer |-> customer,
         fact_sales |-> transform_fact_sales(df, keys)]

\* C15: when a call of run_full_transformation has failed and the retry runs
\* to completion over the same staging table, the warehouse equals the one a
\* single failure-free run over the staging rows (as the retry read them)
\* leaves: no row of the failed attempt survives or appears twice; and every
\* load of the retry begins at offset 0 after its truncate
C15_RetryEqualsCleanRun ==
    /\ (pc = "transformed" /\ attempt = 2)
          => /\ history[Len(history) - 1].outcome = "raised"
             /\ db = FailureFree(db, df_staging)
    /\ (attempt = 2 /\ pc \in {"dimension_batch", "fact_batch"} /\ i = 0)
          => db[table_name] = <<>>

\* the first attempt failed at the second batch of the product load, leaving
\* one product row; the retry returned with two products and two facts
C15_Witness ==
    /\ pc = "transformed"
    /\ attempt = 2
    /\ Len(history) = 2
    /\ history[1].log[Len(history[1].log)] = Step("load_dimension", "dim_product", "raise")
    /\ Len(history[1].db.dim_product) = 1
    /\ Len(db.dim_product) = 2
    /\ Len(db.fact_sales) = 2

(***************************************************************************)
(* Properties of the quality report                                        *)
(***************************************************************************)
\* the results the report holds for category c
Stored(c) ==
    IF c \in DOMAIN report.check_categories THEN report.check_categories[c] ELSE <<>>

\* the check results recorded so far, in the order the checks ran
Recorded ==
    Stored("raw_data_checks") \o Stored("warehouse_checks")
        \o Stored("performance_checks") \o category_results

\* the check raised while its query ran or its result was evaluated
Threw(check) == Logged(Step("run_quality_check", check.name, "raise"))

\* C16: a check that throws is recorded with passed = false and an error
\* message, and the checks after it still run: the k-th recorded result is
\* that of the k-th defined check, and the returned report holds one result
\* for each of the 7 checks, under the check's category
C16_ThrowingCheckRecorded ==
    /\ Len(Recorded) = i
    /\ \A k \in 1..Len(Recorded) :
          /\ Recorded[k].check_name = quality_rules[k].name
          /\ Threw(quality_rules[k])
                => /\ Recorded[k].passed = FALSE
                   /\ "error" \in DOMAIN Recorded[k]
                   /\ Recorded[k].error # ""
    /\ pc = "reported"
          => /\ Len(Recorded) = 7
             /\ category_results = <<>>
             /\ \A k \in 1..7 :
                   \E j \in 1..Len(Stored(quality_rules[k].category)) :
                       Stored(quality_rules[k].category)[j] = Recorded[k]

\* the report was returned after the first check and the last check threw
\* and a check between them passed
C16_Witness ==
    /\ pc = "reported"
    /\ Threw(quality_rules[1])
    /\ Threw(quality_rules[7])
    /\ Recorded[4].passed
    /\ ~Threw(quality_rules[5])

\* the number of times check has been started
Evaluations(check) ==
    Cardinality({k \in 1..Len(log) :
                    log[k] = Step("run_quality_check", check.name, "start")})

\* C17: check k is pending until the loop reaches it, is evaluated then and
\* never again; after every pass of the loop total_checks = passed_checks +
\* failed_checks = the number of results recorded, critical_failures <=
\* failed_checks, and the returned report has total_checks = 7
C17_CountersConsistent ==
    /\ \A k \in 1..Len(quality_rules) :
          Evaluations(quality_rules[k]) = IF k <= i THEN 1 ELSE 0
    /\ report.summary.total_checks
          = report.summary.passed_checks + report.summary.failed_checks
    /\ report.summary.total_checks = Len(Recorded)
    /\ report.summary.passed_checks
          = Cardinality({k \in 1..Len(Recorded) : Recorded[k].passed})
    /\ report.summary.critical_failures <= report.summary.failed_checks
    /\ pc = "reported" => report.summary.total_checks = 7

\* a returned report with passed, failed and critical failed checks
C17_Witness ==
    /\ pc = "reported"
    /\ report.summary.passed_checks = 4
    /\ report.summary.failed_checks = 3
    /\ report.summary.critical_failures = 1

\* the recorded checks that did not pass, critical or not
Failed(critical) ==
    {k \in 1..Len(Recorded) :
        ~Recorded[k].passed /\ Recorded[k].critical = critical}

\* C18: in a returned report overall_status is CRITICAL_FAILURE iff some
\* critical check did not pass, WARNING iff no critical check failed and
\* some non-critical check did not pass, PASS iff every check passed, and
\* never UNKNOWN
C18_OverallStatus ==
    pc = "reported" =>
        /\ report.overall_status = "CRITICAL_FAILURE" <=> Failed(TRUE) # {}
        /\ report.overall_status = "WARNING"
              <=> (Failed(TRUE) = {} /\ Failed(FALSE) # {})
        /\ report.overall_status = "PASS" <=> \A k \in 1..7 : Recorded[k].passed
        /\ report.overall_status # "UNKNOWN"

\* a returned report in which one critical and two non-critical checks failed
C18_Witness ==
    /\ pc = "reported"
    /\ Cardinality(Failed(TRUE)) = 1
    /\ Cardinality(Failed(FALSE)) = 2
    /\ report.overall_status = "CRITICAL_FAILURE"

\* the recorded result of row_count_validation when its query returned a row
RowCountEvaluated ==
    /\ Len(Recorded) = 7
    /\ "error" \notin DOMAIN Recorded[7]

\* C19: row_count_validation is critical and, for raw_count > 0, passes iff
\* fact_count / raw_count >= 0.95; with raw_count = 1000 and fact_count = 940
\* it fails and the returned overall status is CRITICAL_FAILURE whatever the
\* other checks gave
C19_RowCountRetention ==
    /\ quality_rules[7].name = "row_count_validation" /\ quality_rules[7].critical
    /\ RowCountEvaluated =>
          LET result == Recorded[7].results
          IN  /\ Recorded[7].check_name = "row_count_validation"
              /\ result.raw_count > 0
                    => (Recorded[7].passed
                          <=> result.fact_count * 100 >= 95 * result.raw_count)
              /\ (result.raw_count = 1000 /\ result.fact_count = 940)
                    => /\ ~Recorded[7].passed
                       /\ pc = "reported"
                             => report.overall_status = "CRITICAL_FAILURE"

\* 940 of 1000 rows retained, every other check passed, and the report was
\* returned
C19_Witness ==
    /\ pc = "reported"
    /\ RowCountEvaluated
    /\ Recorded[7].results.raw_count = 1000
    /\ Recorded[7].results.fact_count = 940
    /\ \A k \in 1..6 : Recorded[k].passed
    /\ report.overall_status = "CRITICAL_FAILURE"

\* C20: every recorded check result, of a check evaluated normally or of one
\* that threw, carries the check name, the description, the pass/fail flag,
\* the critical flag, the threshold and the timestamp
C20_ResultCarriesThreshold ==
    \A k \in 1..Len(Recorded) :
        {"check_name", "description", "passed", "critical", "threshold",
         "timestamp"} \subseteq DOMAIN Recorded[k]

(***************************************************************************)
(* The staging table after load_to_staging                                 *)
(***************************************************************************)
\* the rows load_to_staging(df_clean) is to write
StagingRows == [k \in 1..Len(df_clean) |-> db_columns(df_clean[k])]

\* C24: once load_to_staging(df) has returned, raw_retail_data holds exactly
\* the rows of df and no row of an earlier load, for every df, the one with
\* zero rows included
C24_StagingReplaced ==
    pc = "extracted" => db.raw_retail_data = StagingRows


(***************************************************************************)
(* The statistics extract_from_excel returns                               *)
(***************************************************************************)
\* extract_from_excel has returned its (df_clean, stats) pair
ExtractReturned == stats # <<>>

\* pd.read_excel returned and the sheet has every column the cleaner reads
CleanableSheet ==
    /\ pc # "extract"
    /\ err.type # "ReadError"
    /\ clean_error(rename_columns(source.columns)) = ""

\* C26: for every sheet with the columns the cleaner reads, one with zero rows
\* included, extract_from_excel returns the dataset and its statistics without
\* raising; final_rows = initial_rows - null_drops - duplicates_removed,
\* rows_dropped = null_drops + duplicates_removed and drop_rate is
\* rows_dropped / initial_rows * 100 rounded to 2 decimals
C26_ExtractReturnsStats ==
    CleanableSheet =>
        /\ ExtractReturned
        /\ stats.initial_rows = Len(source.rows)
        /\ stats.final_rows =
               stats.initial_rows - stats.null_drops - stats.duplicates_removed
        /\ stats.rows_dropped = stats.null_drops + stats.duplicates_removed
        /\ stats.initial_rows > 0
        /\ stats.drop_rate =
               round_half_even(stats.rows_dropped * 10000, stats.initial_rows)

\* C27: invalid_price_count, high_quantity_count and return_count equal the
\* number of rows of the returned dataset whose price_flag, quantity_flag and
\* is_return is true
C27_FlagCountsOfReturnedRows ==
    ExtractReturned =>
        /\ stats.invalid_price_count = Count(df_clean, "price_flag")
        /\ stats.high_quantity_count = Count(df_clean, "quantity_flag")
        /\ stats.return_count = Count(df_clean, "is_return")

(***************************************************************************)
(* Foreign keys of fact_sales during run_full_transformation               *)
(***************************************************************************)
\* the column of fact_sales holding its foreign key into dimension t is named
\* as the dimension's key column; the fact rows of warehouse d whose key into
\* some dimension is set and names no row of that dimension
DanglingFacts(d) ==
    {k \in 1..Len(d.fact_sales) :
        \E t \in Dimensions :
            /\ ~IsNull(d.fact_sales[k][key_column(t)])
            /\ Referent(d, t, d.fact_sales[k][key_column(t)]) = {}}

\* C28: at every state of run_full_transformation, after each truncate and
\* each appended batch, of a first run, a retry or a rerun, no row of
\* fact_sales has a product, customer, time or country key that names a row
\* missing from its dimension table
C28_NoDanglingFactKeys == DanglingFacts(db) = {}

\* dim_time has been truncated on a warehouse an earlier run had filled: the
\* earlier fact row is gone with it while dim_product still holds its old row
C28_Witness ==
    /\ table_name = "dim_time"
    /\ pc \in {"dimension_batch", "read_keys"}
    /\ db.dim_time = <<>>
    /\ db.dim_product = OldDb.dim_product
    /\ db.fact_sales = <<>>

(***************************************************************************)
(* Returns and negative amounts in fact_sales                              *)
(***************************************************************************)
\* fact row f has a negative quantity and is not marked as a return
NegativeQuantityNonReturn(f) ==
    ~IsNull(f.quantity) /\ Val(f.quantity) < 0 /\ ~f.is_return

\* C29: no row returned by transform_fact_sales, and no row of fact_sales in
\* a warehouse the pipeline wrote, has quantity < 0 with is_return false, so
\* the loader counts 0 negative_quantities_non_returns
C29_NoNegativeQuantityNonReturn ==
    /\ ~IsNull(out.fact_sales) =>
          \A k \in 1..Len(FactOut) : ~NegativeQuantityNonReturn(FactOut[k])
    /\ \A k \in 1..Len(db.fact_sales) :
          ~NegativeQuantityNonReturn(db.fact_sales[k])
    /\ validate_business_rules(db, today).negative_quantities_non_returns = 0

\* the run loaded a fact row of positive quantity and negative unit price:
\* its total_amount is negative, it is not a return, and the business_logic
\* rule of the quality checker fails on the warehouse
C29_Witness ==
    /\ pc = "transformed"
    /\ \E k \in 1..Len(db.fact_sales) :
          LET f == db.fact_sales[k]
          IN  /\ f.src # 0
              /\ ~IsNull(f.quantity) /\ Val(f.quantity) > 0
              /\ ~IsNull(f.unit_price) /\ Val(f.unit_price) < 0
              /\ ~IsNull(f.total_amount) /\ Val(f.total_amount) < 0
              /\ ~f.is_return
    /\ business_logic_query(db).negative_non_returns > 0
    /\ ~business_logic(business_logic_query(db))

(***************************************************************************)
(* Properties of the monitor checks                                        *)
(***************************************************************************)
\* check fn has returned a dataframe
Called(fn) == ~IsNull(monitoring) /\ Val(monitoring).check = fn

Result == Val(monitoring).df

\* the daily_sales values of the returned dataframe, NaN cells left out
SalesValues ==
    LET col == Column(Result, "daily_sales")
        present == Pick(col, {k \in 1..Len(col) : ~IsNull(col[k])})
    IN  [k \in 1..Len(present) |-> Val(present[k])]

\* C21: check_daily_sales_range tags a day Low iff its daily_sales is below
\* Q1 - 1.5 * IQR, High iff it is above Q3 + 1.5 * IQR and Normal otherwise,
\* Q1 and Q3 being the quartiles of the whole series (in eighths:
\* 8 * (Q1 - 1.5 * IQR) = 2 * 4Q1 - 3 * 4IQR); for the series 10, 12, 11, 13,
\* 9, 100 the bounds are 6.5 and 16.5, 100 is High and the other five Normal
C21_SalesOutlierTags ==
    Called("check_daily_sales_range") =>
        /\ \A k \in 1..Len(Result) :
              LET x == Result[k].daily_sales
                  tag == Result[k].outlier_type
                  comparable == ~IsNull(x) /\ Len(SalesValues) > 0
                  Q1 == quantile(SalesValues, 1)
                  Q3 == quantile(SalesValues, 3)
                  low == comparable /\ 8 * Val(x) < 2 * Q1 - 3 * (Q3 - Q1)
                  high == comparable /\ 8 * Val(x) > 2 * Q3 + 3 * (Q3 - Q1)
              IN  /\ tag = "Low" <=> low
                  /\ tag = "High" <=> high
                  /\ tag = "Normal" <=> (~low /\ ~high)
        /\ SalesValues = ExampleSeries /\ Len(Result) = Len(ExampleSeries) =>
              /\ quantile(SalesValues, 1) = 41
              /\ quantile(SalesValues, 3) = 51
              /\ Column(Result, "outlier_type")
                   = <<"Normal", "Normal", "Normal", "Normal", "Normal", "High">>

\* the check returned the example series with 100 tagged High
C21_Witness ==
    /\ Called("check_daily_sales_range")
    /\ Column(Result, "daily_sales")
         = [k \in 1..Len(ExampleSeries) |-> Some(ExampleSeries[k])]
    /\ Result[6].outlier_type = "High"
    /\ Result[6].is_outlier

\* C22: check_missing_customer_rate gives a date of missing rate x percent
\* the status Good iff x <= 5, Warning iff 5 < x <= 10 and Critical iff
\* x > 10, and the score 100 when x <= 5 and max(50, 100 - (x - 5) * 10)
\* otherwise, which lies in [50, 100]; x is the share of transactions without
\* a customer key, rounded to 2 decimals; 100 transactions of which 6 lack the
\* key give rate 6.00, Warning and score 90 (x in hundredths, score in tenths)
C22_MissingRateScoring ==
    Called("check_missing_customer_rate") =>
        \A k \in 1..Len(Result) :
            LET row == Result[k]
                x == row.missing_customer_rate
                linear == 1000 - (x - 500)
            IN  /\ row.quality_status = "Good" <=> x <= 500
                /\ row.quality_status = "Warning" <=> (500 < x /\ x <= 1000)
                /\ row.quality_status = "Critical" <=> x > 1000
                /\ x <= 500 => row.quality_score = 1000
                /\ x > 500 =>
                      row.quality_score = (IF linear > 500 THEN linear ELSE 500)
                /\ 500 <= row.quality_score /\ row.quality_score <= 1000
                /\ row.missing_customers
                     = row.total_transactions - row.transactions_with_customer
                /\ 2 * (x * row.total_transactions
                          - row.missing_customers * 10000) <= row.total_transactions
                /\ 2 * (row.missing_customers * 10000
                          - x * row.total_transactions) <= row.total_transactions
                /\ (row.total_transactions = 100 /\ row.missing_customers = 6) =>
                      /\ x = 600
                      /\ row.quality_status = "Warning"
                      /\ row.quality_score = 900

\* a date of 100 transactions, 6 of them without a customer key, was scored
C22_Witness ==
    /\ Called("check_missing_customer_rate")
    /\ \E k \in 1..Len(Result) :
          /\ Result[k].total_transactions = 100
          /\ Result[k].missing_customers = 6
          /\ Result[k].quality_status = "Warning"
          /\ Result[k].quality_score = 900

\* C30: every row of fact_sales written by run_full_transformation has a
\* customer key, so check_missing_customer_rate on the warehouse finds, for
\* every date, no missing customer, rate 0, status Good and score 100
C30_NoMissingCustomerFromPipeline ==
    /\ \A k \in 1..Len(db.fact_sales) : ~IsNull(db.fact_sales[k].customer_key)
    /\ LET df == check_missing_customer_rate(missing_customer_query(db))
       IN  \A k \in 1..Len(df) :
               /\ df[k].missing_customers = 0
               /\ df[k].missing_customer_rate = 0
               /\ df[k].quality_status = "Good"
               /\ df[k].quality_score = 1000

\* the run loaded facts from a staging table that also held a row without a
\* customer id, and the check has a date to report on
C30_Witness ==
    /\ pc = "transformed"
    /\ \E k \in 1..Len(db.raw_retail_data) : IsNull(db.raw_retail_data[k].customer_id)
    /\ \E k \in 1..Len(db.fact_sales) : db.fact_sales[k].src # 0
    /\ Len(check_missing_customer_rate(missing_customer_query(db))) > 0

(***************************************************************************)
(* Properties of the DAG run after a failed validation                     *)
(***************************************************************************)
\* the overall_status the last try of validate_quality got, "" before any
LastReturned ==
    IF dag.returned = <<>> THEN "" ELSE dag.returned[Len(dag.returned)]

\* no task downstream of validate_quality has run
NothingDownstreamRan == \A t \in Downstream : dag.state[t] # "success"

\* the warehouse is as it was when validate_quality first ran
WarehouseUntouched == ~IsNull(dag.warehouse) => db = Val(dag.warehouse)

\* C25 as stated: once a try of validate_quality got an overall_status other
\* than PASS, no downstream task runs in the DAG run and the warehouse stays
\* as it was
C25_AnyFailedTryStopsRun ==
    (\E k \in 1..Len(dag.returned) : dag.returned[k] # "PASS") =>
        /\ NothingDownstreamRan
        /\ WarehouseUntouched

\* C25: a try of validate_quality that got an overall_status other than PASS
\* raised (the task is up for its one retry, or failed); the downstream tasks
\* run only after a try that got PASS, so none of them runs when the last try
\* got another status; until a downstream task runs no step changes the
\* warehouse
C25_FailedValidationStopsRun ==
    /\ LastReturned \notin {"", "PASS"} =>
          /\ dag.state["validate_quality"] \in {"up_for_retry", "failed"}
          /\ NothingDownstreamRan
    /\ dag.state["validate_quality"] = "failed" =>
          dag.try_number["validate_quality"] = retries + 2
    /\ ~NothingDownstreamRan =>
          /\ LastReturned = "PASS"
          /\ dag.state["validate_quality"] = "success"
    /\ dag.state["cleanup_staging"] # "success" => WarehouseUntouched

\* both tries of validate_quality got FAIL: the task failed, every downstream
\* task is marked upstream_failed and the warehouse is as it was
C25_Witness ==
    /\ dag.returned = <<"FAIL", "FAIL">>
    /\ dag.state["validate_quality"] = "failed"
    /\ \A t \in Downstream : dag.state[t] = "upstream_failed"
    /\ db = Val(dag.warehouse)
    /\ Len(db.fact_sales) > 0

(***************************************************************************)
(* Properties of two runs on one warehouse                                 *)
(***************************************************************************)
\* a key mapping load_dimension returned to a run with log lg and keys ks names
\* a surrogate key that no row of warehouse d holds under that natural key
MappedKeyWithoutRow(lg, ks, d) ==
    \E t \in Dimensions :
        /\ Step("load_dimension", t, "return") \in Range(lg)
        /\ \E nk \in DOMAIN ks[keys_entry(t)] :
              \A j \in 1..Len(d[t]) :
                  \/ d[t][j][key_column(t)] # ks[keys_entry(t)][nk]
                  \/ natural_key(d[t][j], t) # nk

\* a dimension of warehouse d holds one natural key in two rows
NaturalKeyTwice(d) ==
    \E t \in Dimensions : \E a, b \in 1..Len(d[t]) :
        a < b /\ natural_key(d[t][a], t) = natural_key(d[t][b], t)

\* a run in progress holds a mapping that does not match the warehouse, or a
\* run returned leaving fact rows whose keys name no row
MappingMismatch ==
    \/ /\ Active(pc)
       /\ MappedKeyWithoutRow(log, dimension_keys, db) \/ NaturalKeyTwice(db)
    \/ /\ ~IsNull(other)
       /\ Active(Val(other).pc)
       /\ \/ MappedKeyWithoutRow(Val(other).log, Val(other).dimension_keys, db)
          \/ NaturalKeyTwice(db)
    \/ \E k \in 1..Len(history) :
          /\ history[k].outcome = "returned"
          /\ DanglingFacts(history[k].db) # {} \/ NaturalKeyTwice(history[k].db)

\* C23: with max_active_runs = 1, as the DAG sets it, no state is reachable in
\* which a key mapping returned to a run in progress names a surrogate key that
\* no row holds, a dimension holds a natural key twice, or a run returned
\* leaving such rows; with two runs interleaving their truncate, append and
\* read-back statements such a state is reachable (C23_Witness)
C23_OneActiveRunKeepsKeyMappings == max_active_runs = 1 => ~MappingMismatch

\* two runs are active, the run off the processor has read back the keys of
\* dim_time and the run on the processor has truncated the table since
C23_Witness ==
    /\ max_active_runs = 2
    /\ Active(pc)
    /\ ~IsNull(other)
    /\ Active(Val(other).pc)
    /\ Step("load_dimension", "dim_time", "return") \in Range(Val(other).log)
    /\ MappedKeyWithoutRow(Val(other).log, Val(other).dimension_keys, db)

\* of the interleaved states, one where dim_time holds a date twice
C23_WitnessTwice ==
    /\ max_active_runs = 2
    /\ NaturalKeyTwice(db)

\* the DAG's setting: the second run has started after the first returned
C23_WitnessSerial ==
    /\ max_active_runs = 1
    /\ ~IsNull(other)
    /\ Val(other).pc = "transformed"
    /\ pc = "transformed"
    /\ Len(history) = 2

====
